---- MODULE Spec2Model ----
(***************************************************************************)
(* Model of the tabular data engine of src/components/CsvViewer.tsx:       *)
(* the quoted-field tokenizer, the parser, the export serializer and the   *)
(* CsvViewer component's query state (search, column filters, sort,        *)
(* column visibility, pagination).                                         *)
(*                                                                         *)
(* A JavaScript string is a sequence of one-character strings.  A cell     *)
(* value (string | number) is a record [num, s]: num is "typeof value ===  *)
(* 'number'", s is String(value).  The numbers that occur are the          *)
(* non-negative integers, whose String() form is their canonical decimal   *)
(* text.  A row object is the sequence of its [k, v] properties in         *)
(* creation order.                                                         *)
(***************************************************************************)
EXTENDS Integers, Sequences, FiniteSets, TLC

-----------------------------------------------------------------------------
(* Characters and JavaScript string primitives                             *)

QUOTE == "\""
COMMA == ","
NL == "\n"
SPACE == " "

Digits == {"0", "1", "2", "3", "4", "5", "6", "7", "8", "9"}

DigitVal(c) ==
  CASE c = "0" -> 0 [] c = "1" -> 1 [] c = "2" -> 2 [] c = "3" -> 3
    [] c = "4" -> 4 [] c = "5" -> 5 [] c = "6" -> 6 [] c = "7" -> 7
    [] c = "8" -> 8 [] c = "9" -> 9

DigitChar(d) ==
  CASE d = 0 -> "0" [] d = 1 -> "1" [] d = 2 -> "2" [] d = 3 -> "3"
    [] d = 4 -> "4" [] d = 5 -> "5" [] d = 6 -> "6" [] d = 7 -> "7"
    [] d = 8 -> "8" [] d = 9 -> "9"

\* UTF-16 code unit of the characters that occur in the inputs.
CharCode(c) ==
  CASE c = NL -> 10 [] c = SPACE -> 32 [] c = QUOTE -> 34 [] c = COMMA -> 44
    [] c \in Digits -> 48 + DigitVal(c)
    [] c = "A" -> 65 [] c = "B" -> 66
    [] c = "a" -> 97 [] c = "b" -> 98 [] c = "n" -> 110
    [] c = "x" -> 120 [] c = "y" -> 121

\* String.prototype.toLowerCase, one character.
UpperLetters ==
  {"A", "B", "C", "D", "E", "F", "G", "H", "I", "J", "K", "L", "M",
   "N", "O", "P", "Q", "R", "S", "T", "U", "V", "W", "X", "Y", "Z"}

LowerChar(c) ==
  IF c \in UpperLetters
  THEN
    CASE c = "A" -> "a" [] c = "B" -> "b" [] c = "C" -> "c" [] c = "D" -> "d"
      [] c = "E" -> "e" [] c = "F" -> "f" [] c = "G" -> "g" [] c = "H" -> "h"
      [] c = "I" -> "i" [] c = "J" -> "j" [] c = "K" -> "k" [] c = "L" -> "l"
      [] c = "M" -> "m" [] c = "N" -> "n" [] c = "O" -> "o" [] c = "P" -> "p"
      [] c = "Q" -> "q" [] c = "R" -> "r" [] c = "S" -> "s" [] c = "T" -> "t"
      [] c = "U" -> "u" [] c = "V" -> "v" [] c = "W" -> "w" [] c = "X" -> "x"
      [] c = "Y" -> "y" [] c = "Z" -> "z"
  ELSE c

RECURSIVE toLowerCase(_)
toLowerCase(s) ==
  IF s = <<>> THEN <<>> ELSE <<LowerChar(Head(s))>> \o toLowerCase(Tail(s))

IsSpace(c) == c \in {SPACE, NL}

RECURSIVE trimStart(_)
trimStart(s) ==
  IF s # <<>> /\ IsSpace(Head(s)) THEN trimStart(Tail(s)) ELSE s

RECURSIVE trimEnd(_)
trimEnd(s) ==
  IF s # <<>> /\ IsSpace(s[Len(s)]) THEN trimEnd(SubSeq(s, 1, Len(s) - 1))
  ELSE s

\* String.prototype.trim
trim(s) == trimEnd(trimStart(s))

\* String.prototype.includes
includes(s, t) ==
  \E i \in 0..(Len(s) - Len(t)) : SubSeq(s, i + 1, i + Len(t)) = t

startsWith(s, t) == Len(t) <= Len(s) /\ SubSeq(s, 1, Len(t)) = t

endsWith(s, t) ==
  Len(t) <= Len(s) /\ SubSeq(s, Len(s) - Len(t) + 1, Len(s)) = t

\* a < b on strings: comparison by code units.
RECURSIVE StrLess(_, _)
StrLess(a, b) ==
  IF b = <<>> THEN FALSE
  ELSE IF a = <<>> THEN TRUE
  ELSE IF Head(a) = Head(b) THEN StrLess(Tail(a), Tail(b))
  ELSE CharCode(Head(a)) < CharCode(Head(b))

\* text.split(sep) for a one-character separator.
RECURSIVE SplitAcc(_, _, _)
SplitAcc(s, sep, cur) ==
  IF s = <<>> THEN <<cur>>
  ELSE IF Head(s) = sep THEN <<cur>> \o SplitAcc(Tail(s), sep, <<>>)
  ELSE SplitAcc(Tail(s), sep, Append(cur, Head(s)))

split(s, sep) == SplitAcc(s, sep, <<>>)

\* parts.join(sep)
RECURSIVE join(_, _)
join(parts, sep) ==
  IF parts = <<>> THEN <<>>
  ELSE IF Len(parts) = 1 THEN parts[1]
  ELSE parts[1] \o sep \o join(Tail(parts), sep)

\* The decimal strings: what Number() and parseFloat() both accept among
\* the strings over the input characters (no sign, point or exponent there).
IsDecimal(s) == s # <<>> /\ \A i \in 1..Len(s) : s[i] \in Digits

RECURSIVE DecVal(_)
DecVal(s) ==
  IF s = <<>> THEN 0
  ELSE 10 * DecVal(SubSeq(s, 1, Len(s) - 1)) + DigitVal(s[Len(s)])

\* String(n) for a non-negative integer n.
RECURSIVE NumToStr(_)
NumToStr(n) ==
  IF n < 10 THEN <<DigitChar(n)>>
  ELSE Append(NumToStr(n \div 10), DigitChar(n % 10))

\* Cell values.
NumV(n) == [num |-> TRUE, s |-> NumToStr(n)]
StrV(s) == [num |-> FALSE, s |-> s]

\* String(value)
String(v) == v.s

\* Number(value): [nan, n].  Number("") is 0, Number of a trimmed decimal
\* string is its value, every other string over the input characters is NaN.
Number(v) ==
  IF v.s = <<"undefined">> THEN [nan |-> TRUE, n |-> 0]
  ELSE IF v.num THEN [nan |-> FALSE, n |-> DecVal(v.s)]
  ELSE IF trim(v.s) = <<>> THEN [nan |-> FALSE, n |-> 0]
  ELSE IF IsDecimal(trim(v.s)) THEN [nan |-> FALSE, n |-> DecVal(trim(v.s))]
  ELSE [nan |-> TRUE, n |-> 0]

\* value || '' : 0, '' and undefined are the falsy values a cell read yields.
OrEmpty(v) ==
  IF v.s = <<"undefined">> \/ v.s = <<>> \/ (v.num /\ DecVal(v.s) = 0)
  THEN StrV(<<>>)
  ELSE v

-----------------------------------------------------------------------------
(* Row objects: property lists in creation order                           *)

HasKey(row, k) == \E i \in 1..Len(row) : row[i].k = k

\* The value undefined: String(undefined) is the text "undefined", which is
\* kept as one symbol; typeof undefined is not 'number'.
Undefined == [num |-> FALSE, s |-> <<"undefined">>]

\* row[k]
Get(row, k) ==
  IF HasKey(row, k) THEN row[CHOOSE i \in 1..Len(row) : row[i].k = k].v
  ELSE Undefined

\* row[k] = v : an existing property keeps its place, a new one is appended.
SetProp(row, k, v) ==
  IF HasKey(row, k)
  THEN [i \in 1..Len(row) |-> IF row[i].k = k THEN [k |-> k, v |-> v] ELSE row[i]]
  ELSE Append(row, [k |-> k, v |-> v])

\* An integer-like property name (canonical array index).
IsIndexKey(k) == IsDecimal(k) /\ (Len(k) = 1 \/ k[1] # "0")

RECURSIVE SelectKeys(_, _)
SelectKeys(row, wantIndex) ==
  IF row = <<>> THEN <<>>
  ELSE (IF IsIndexKey(Head(row).k) = wantIndex THEN <<Head(row).k>> ELSE <<>>)
       \o SelectKeys(Tail(row), wantIndex)

RECURSIVE SortIndexKeys(_)
SortIndexKeys(ks) ==
  IF ks = <<>> THEN <<>>
  ELSE LET m == CHOOSE i \in 1..Len(ks) :
                  \A j \in 1..Len(ks) : DecVal(ks[i]) <= DecVal(ks[j])
       IN <<ks[m]>> \o SortIndexKeys(SubSeq(ks, 1, m - 1) \o SubSeq(ks, m + 1, Len(ks)))

\* Object.keys(row): integer-like names in ascending numeric order first,
\* then the other names in creation order.
ObjectKeys(row) == SortIndexKeys(SelectKeys(row, TRUE)) \o SelectKeys(row, FALSE)

\* Object.values(row), in the order of Object.keys.
ObjectValues(row) ==
  LET ks == ObjectKeys(row) IN [i \in 1..Len(ks) |-> Get(row, ks[i])]

-----------------------------------------------------------------------------
(* parseCsvLine, parseCsvFile, exportCsvData                               *)

\* The loop without the rule for a pair of quotes inside quotes.
RECURSIVE ParseLineFromNoEscape(_, _, _, _, _)
ParseLineFromNoEscape(line, i, current, inQuotes, result) ==
  IF i > Len(line) THEN Append(result, trim(current))
  ELSE LET char == line[i]
       IN IF char = QUOTE
          THEN ParseLineFromNoEscape(line, i + 1, current, ~inQuotes, result)
          ELSE IF char = COMMA /\ ~inQuotes
          THEN ParseLineFromNoEscape(line, i + 1, <<>>, inQuotes,
                                     Append(result, trim(current)))
          ELSE ParseLineFromNoEscape(line, i + 1, Append(current, char), inQuotes,
                                     result)

\* The while loop of parseCsvLine from position i (1-based).
RECURSIVE ParseLineFrom(_, _, _, _, _)
ParseLineFrom(line, i, current, inQuotes, result) ==
  IF i > Len(line) THEN Append(result, trim(current))
  ELSE LET char == line[i]
           hasNext == i + 1 <= Len(line)
       IN IF char = QUOTE
          THEN IF inQuotes /\ hasNext /\ line[i + 1] = QUOTE
               THEN ParseLineFrom(line, i + 2, Append(current, QUOTE), inQuotes, result)
               ELSE ParseLineFrom(line, i + 1, current, ~inQuotes, result)
          ELSE IF char = COMMA /\ ~inQuotes
          THEN ParseLineFrom(line, i + 1, <<>>, inQuotes, Append(result, trim(current)))
          ELSE ParseLineFrom(line, i + 1, Append(current, char), inQuotes, result)

parseCsvLine(line) == ParseLineFrom(line, 1, <<>>, FALSE, <<>>)

\* value.replace(/^"(.*)"$/, '$1') on a string without line breaks.
StripQuotes(s) ==
  IF Len(s) >= 2 /\ s[1] = QUOTE /\ s[Len(s)] = QUOTE
  THEN SubSeq(s, 2, Len(s) - 1)
  ELSE s

\* isNaN(parseFloat(value)): parseFloat reads the longest numeric prefix
\* after leading white space.
ParseFloatIsNaN(s) == trimStart(s) = <<>> \/ Head(trimStart(s)) \notin Digits

\* text.split('\n').filter(line => line.trim())
RECURSIVE NonBlank(_)
NonBlank(ls) ==
  IF ls = <<>> THEN <<>>
  ELSE (IF trim(Head(ls)) # <<>> THEN <<Head(ls)>> ELSE <<>>) \o NonBlank(Tail(ls))

SplitLines(text) == NonBlank(split(text, NL))

ParseHeaders(line) ==
  LET hs == parseCsvLine(line)
  IN [i \in 1..Len(hs) |-> trim(StripQuotes(hs[i]))]

\* The body without the removal of the quotes around the value.
CellValueKeepsQuotes(values, index) ==
  LET raw == IF index <= Len(values) THEN values[index] ELSE <<>>
      value == trim(raw)
  IN IF ~Number(StrV(value)).nan /\ value # <<>> /\ ~ParseFloatIsNaN(value)
     THEN NumV(DecVal(value))
     ELSE StrV(value)

\* The body of headers.forEach for one header position.
CellValue(values, index) ==
  LET raw == IF index <= Len(values) THEN values[index] ELSE <<>>
      value == trim(StripQuotes(raw))
  IN IF ~Number(StrV(value)).nan /\ value # <<>> /\ ~ParseFloatIsNaN(value)
     THEN NumV(DecVal(value))
     ELSE StrV(value)

\* The loop run over the fields of the line instead of over the headers.
RECURSIVE BuildRowOverValues(_, _, _, _)
BuildRowOverValues(headers, values, index, row) ==
  IF index > Len(headers) \/ index > Len(values) THEN row
  ELSE BuildRowOverValues(headers, values, index + 1,
                          SetProp(row, headers[index], CellValue(values, index)))

RECURSIVE BuildRow(_, _, _, _)
BuildRow(headers, values, index, row) ==
  IF index > Len(headers) THEN row
  ELSE BuildRow(headers, values, index + 1,
                SetProp(row, headers[index], CellValue(values, index)))

ParseRow(headers, line) == BuildRow(headers, parseCsvLine(line), 1, <<>>)

\* Object.values(row).some(val => val !== '')
HasNonEmpty(row) == \E i \in 1..Len(row) : row[i].v # StrV(<<>>)

RECURSIVE ParseDataLines(_, _)
ParseDataLines(headers, ls) ==
  IF ls = <<>> THEN <<>>
  ELSE LET row == ParseRow(headers, Head(ls))
       IN (IF HasNonEmpty(row) THEN <<row>> ELSE <<>>)
          \o ParseDataLines(headers, Tail(ls))

\* parseCsvFile: ok = FALSE is the rejection "CSV file is empty".
parseCsvFile(text) ==
  LET lines == SplitLines(text)
  IN IF lines = <<>>
     THEN [ok |-> FALSE, data |-> <<>>, columns |-> <<>>]
     ELSE LET headers == ParseHeaders(lines[1])
          IN [ok |-> TRUE,
              data |-> ParseDataLines(headers, Tail(lines)),
              columns |-> headers]

\* One exported field: String(row[header] || '') with the quoting rule.
RECURSIVE DoubleQuotes(_)
DoubleQuotes(s) ==
  IF s = <<>> THEN <<>>
  ELSE (IF Head(s) = QUOTE THEN <<QUOTE, QUOTE>> ELSE <<Head(s)>>)
       \o DoubleQuotes(Tail(s))

ExportField(v) ==
  LET value == String(OrEmpty(v))
  IN IF includes(value, <<COMMA>>) \/ includes(value, <<QUOTE>>)
        \/ includes(value, <<NL>>)
     THEN <<QUOTE>> \o DoubleQuotes(value) \o <<QUOTE>>
     ELSE value

ExportHeaders(data) == ObjectKeys(data[1])

ExportLine(row, headers) ==
  join([i \in 1..Len(headers) |-> ExportField(Get(row, headers[i]))], <<COMMA>>)

\* exportCsvData: emitted = FALSE is the early return on an empty row set;
\* text is csvContent, the content of the downloaded blob.
exportCsvData(data) ==
  IF Len(data) = 0 THEN [emitted |-> FALSE, text |-> <<>>]
  ELSE LET headers == ExportHeaders(data)
       IN [emitted |-> TRUE,
           text |-> join(<<join(headers, <<COMMA>>)>>
                         \o [i \in 1..Len(data) |-> ExportLine(data[i], headers)],
                         <<NL>>)]

-----------------------------------------------------------------------------
(* The filter / sort effect and the page slice of CsvViewer                *)

NoSort == [key |-> <<>>, direction |-> "none"]

Operators == {"contains", "equals", "startsWith", "endsWith", "greater", "less"}

\* The global search predicate of one row.
MatchesSearch(row, query) ==
  LET vals == ObjectValues(row)
  IN \E i \in 1..Len(vals) :
       includes(toLowerCase(String(vals[i])), toLowerCase(query))

\* The switch over filter.operator for one row.
MatchesFilter(row, filter) ==
  LET cellValue == toLowerCase(String(OrEmpty(Get(row, filter.column))))
      filterValue == toLowerCase(filter.value)
      cellNum == Number(Get(row, filter.column))
      filterNum == Number(StrV(filterValue))
  IN CASE filter.operator = "contains" -> includes(cellValue, filterValue)
       [] filter.operator = "equals" -> cellValue = filterValue
       [] filter.operator = "startsWith" -> startsWith(cellValue, filterValue)
       [] filter.operator = "endsWith" -> endsWith(cellValue, filterValue)
       [] filter.operator = "greater" ->
            ~cellNum.nan /\ ~filterNum.nan /\ cellNum.n > filterNum.n
       [] filter.operator = "less" ->
            ~cellNum.nan /\ ~filterNum.nan /\ cellNum.n < filterNum.n
       [] OTHER -> includes(cellValue, filterValue)

RECURSIVE FilterBySearch(_, _)
FilterBySearch(rows, query) ==
  IF rows = <<>> THEN <<>>
  ELSE (IF MatchesSearch(Head(rows), query) THEN <<Head(rows)>> ELSE <<>>)
       \o FilterBySearch(Tail(rows), query)

RECURSIVE FilterByColumn(_, _)
FilterByColumn(rows, filter) ==
  IF rows = <<>> THEN <<>>
  ELSE (IF MatchesFilter(Head(rows), filter) THEN <<Head(rows)>> ELSE <<>>)
       \o FilterByColumn(Tail(rows), filter)

\* columnFilters.forEach: a filter with an empty value is skipped.
RECURSIVE ApplyColumnFilters(_, _)
ApplyColumnFilters(rows, filters) ==
  IF filters = <<>> THEN rows
  ELSE ApplyColumnFilters(
         IF Head(filters).value # <<>> THEN FilterByColumn(rows, Head(filters))
         ELSE rows,
         Tail(filters))

\* The sort comparator: negative, zero or positive.
SortCompare(a, b, sort) ==
  LET aValue == Get(a, sort.key)
      bValue == Get(b, sort.key)
      aStr == toLowerCase(String(aValue))
      bStr == toLowerCase(String(bValue))
  IN IF aValue.num /\ bValue.num
     THEN IF sort.direction = "asc" THEN DecVal(aValue.s) - DecVal(bValue.s)
          ELSE DecVal(bValue.s) - DecVal(aValue.s)
     ELSE IF StrLess(aStr, bStr) THEN (IF sort.direction = "asc" THEN -1 ELSE 1)
     ELSE IF StrLess(bStr, aStr) THEN (IF sort.direction = "asc" THEN 1 ELSE -1)
     ELSE 0

\* An insertion that is not stable: x goes before the elements of equal key.
RECURSIVE InsertSortedBeforeEquals(_, _, _)
InsertSortedBeforeEquals(sorted, x, sort) ==
  IF sorted = <<>> THEN <<x>>
  ELSE IF SortCompare(sorted[Len(sorted)], x, sort) < 0 THEN Append(sorted, x)
  ELSE Append(InsertSortedBeforeEquals(SubSeq(sorted, 1, Len(sorted) - 1), x, sort),
              sorted[Len(sorted)])

\* Array.prototype.sort is stable: x goes after every element it does not
\* precede.
RECURSIVE InsertSorted(_, _, _)
InsertSorted(sorted, x, sort) ==
  IF sorted = <<>> THEN <<x>>
  ELSE IF SortCompare(sorted[Len(sorted)], x, sort) <= 0 THEN Append(sorted, x)
  ELSE Append(InsertSorted(SubSeq(sorted, 1, Len(sorted) - 1), x, sort),
              sorted[Len(sorted)])

RECURSIVE SortRows(_, _, _)
SortRows(rows, sort, acc) ==
  IF rows = <<>> THEN acc
  ELSE SortRows(Tail(rows), sort, InsertSorted(acc, Head(rows), sort))

\* The value the effect on [data, globalSearchQuery, columnFilters,
\* sortConfig] hands to setFilteredData.
FilterEffect(rows, query, filters, sort) ==
  LET searched == IF query # <<>> THEN FilterBySearch(rows, query) ELSE rows
      filtered == ApplyColumnFilters(searched, filters)
  IN IF sort # NoSort THEN SortRows(filtered, sort, <<>>) ELSE filtered

\* Math.ceil(len / itemsPerPage)
TotalPages(len, perPage) == (len + perPage - 1) \div perPage

\* Array.prototype.slice(start, end) for 0 <= start <= end.
Slice(s, start, end) ==
  LET lo == IF start < Len(s) THEN start ELSE Len(s)
      hi == IF end < Len(s) THEN end ELSE Len(s)
  IN SubSeq(s, lo + 1, hi)

\* A page offset counted from page 0.
StartIndexFromPage(page, perPage) == page * perPage

\* startIndex
StartIndex(page, perPage) == (page - 1) * perPage

\* currentData of the given page.
PageSlice(rows, page, perPage) ==
  Slice(rows, StartIndex(page, perPage), StartIndex(page, perPage) + perPage)

Max(a, b) == IF a >= b THEN a ELSE b
Min(a, b) == IF a <= b THEN a ELSE b

\* goToPage without the lower clamp.
ClampPageNoFloor(page, totalPages) == Min(page, totalPages)

\* The argument of setCurrentPage in goToPage.
ClampPage(page, totalPages) == Max(1, Min(page, totalPages))

-----------------------------------------------------------------------------
(* The CsvViewer component                                                 *)

\* The files the file prop takes.  TextA: a numeric-looking column name, a
\* zero, a quoted comma, an escaped quote, an empty cell, 6 rows.  TextB: 11
\* rows.  TextE: no non-blank line.
TextA ==
  <<"n", ",", "1", "\n", "a", ",", "0", "\n", "A", ",", "2", "\n", "\"",
    "a", ",", "b", "\"", ",", "1", "\n", "b", ",", "\n", "\"", "a", "\"",
    "\"", "b", "\"", ",", "1", "0", "\n", "A", "b", ",", "0", "1", "\n">>

TextB ==
  <<"n", ",", "1", "\n", "b", ",", "1", "\n", "a", ",", "2", "\n", "B",
    ",", "0", "\n", "a", ",", "1", "\n", "a", "b", ",", "2", "\n", "b",
    ",", "0", "\n", "A", ",", "1", "\n", "a", ",", "0", "\n", "b", ",",
    "2", "\n", "a", "b", ",", "1", "\n", "a", ",", "\n">>

TextE ==
  <<" ", "\n">>

\* A File is identified with its text.
Files == {TextA, TextB, TextE}
DataFiles == {TextA, TextB}

\* The options of the rows-per-page select that are exercised.
PageSizes == {5, 10}

\* What the user types in the search box, and in the filter value box with
\* the operator selected next to it.
SearchTerms == {<<>>, <<"A">>}
FilterInputs ==
  {[value |-> <<"a">>, operator |-> "contains"],
   [value |-> <<>>, operator |-> "equals"],
   [value |-> <<"1">>, operator |-> "greater"],
   [value |-> <<"B">>, operator |-> "startsWith"]}

\* The inputs exercised together with file changes; <<"x">> occurs in no cell.
LoadSearchTerms == {<<>>, <<"x">>}
LoadFilterInputs == {[value |-> <<"a">>, operator |-> "contains"]}

\* Arguments of goToPage.
MaxPageArg == 4
PageArgs == (-1)..MaxPageArg

\* Parses in flight at one time.
MaxPending == 1

NoError == "null"

VARIABLES
  file,                 \* the file prop
  pending,              \* files whose parseCsvFile promise is not settled
  data, columns, filteredData,
  globalSearchQuery, columnFilters, selectedFilterColumn,
  visibleColumns, sortConfig, currentPage, itemsPerPage,
  loading, error

\* parseZipFile: the entries in the order zip.files yields them, the number
\* of loop iterations done, and the two objects the loop writes.
VARIABLES entries, walkIndex, walkStatus, rootFolder, folderMap

\* App's structure (the tree prop of FileExplorer) and FileExplorer's state.
VARIABLES structure, searchQuery, sortBy

\* UploadZip's state and the handleZipUpload call in flight.
VARIABLES uploadStatus, isUploading, upload

viewerVars == <<file, pending, data, columns, filteredData, globalSearchQuery,
                columnFilters, selectedFilterColumn, visibleColumns,
                sortConfig, currentPage, itemsPerPage, loading, error>>

archiveVars == <<entries, walkIndex, walkStatus, rootFolder, folderMap,
                 structure, searchQuery, sortBy, uploadStatus, isUploading,
                 upload>>

vars == <<viewerVars, archiveVars>>

\* useState(null) of App, and the value of upload between two calls.
NoStructure == [type |-> "null"]
NoUpload == [pc |-> "none"]

\* The archive side while the viewer is exercised: no archive is walked and
\* no upload is in flight.
ArchiveIdle ==
  /\ entries = <<>>
  /\ walkIndex = 0
  /\ walkStatus = "none"
  /\ rootFolder = NoStructure
  /\ folderMap = <<>>
  /\ structure = NoStructure
  /\ searchQuery = <<>>
  /\ sortBy = "name"
  /\ uploadStatus = "idle"
  /\ isUploading = FALSE
  /\ upload = NoUpload

ColumnSet(cols) == {cols[i] : i \in 1..Len(cols)}

\* columns.reduce((acc, col) => ({ ...acc, [col]: true }), {})
AllVisible(cols) == [c \in ColumnSet(cols) |-> TRUE]

\* columns.filter(col => visibleColumns[col])
RECURSIVE VisibleList(_, _)
VisibleList(cols, visible) ==
  IF cols = <<>> THEN <<>>
  ELSE (IF visible[Head(cols)] THEN <<Head(cols)>> ELSE <<>>)
       \o VisibleList(Tail(cols), visible)

visibleColumnsList == VisibleList(columns, visibleColumns)

totalPages == TotalPages(Len(filteredData), itemsPerPage)

currentData == PageSlice(filteredData, currentPage, itemsPerPage)

\* The controls are rendered only past the loading and error returns.
Rendered == ~loading /\ error = NoError

\* getActiveFiltersCount
getActiveFiltersCount ==
  Len(columnFilters) + (IF globalSearchQuery # <<>> THEN 1 ELSE 0)

\* The content exportData downloads.
exportData == exportCsvData(filteredData)

\* The effect without its setCurrentPage(1).
RunFilterEffectKeepsPage(d, query, filters, sort) ==
  /\ filteredData' = FilterEffect(d, query, filters, sort)
  /\ UNCHANGED currentPage

\* The effect on [data, globalSearchQuery, columnFilters, sortConfig], run
\* with the values of the render that follows the state change.
RunFilterEffect(d, query, filters, sort) ==
  /\ filteredData' = FilterEffect(d, query, filters, sort)
  /\ currentPage' = 1

\* State after the first render and its two effects.
InitWith(F) ==
  /\ file \in F
  /\ pending = <<file>>
  /\ data = <<>>
  /\ columns = <<>>
  /\ filteredData = <<>>
  /\ globalSearchQuery = <<>>
  /\ columnFilters = <<>>
  /\ selectedFilterColumn = <<>>
  /\ visibleColumns = AllVisible(<<>>)
  /\ sortConfig = NoSort
  /\ currentPage = 1
  /\ itemsPerPage = 5
  /\ loading = TRUE
  /\ error = NoError
  /\ ArchiveIdle

\* The file prop changes: the effect on [file] starts a parse.
ChangeFile(f) ==
  /\ f # file
  /\ Len(pending) < MaxPending
  /\ file' = f
  /\ pending' = Append(pending, f)
  /\ loading' = TRUE
  /\ error' = NoError
  /\ UNCHANGED <<data, columns, filteredData, globalSearchQuery, columnFilters,
                 selectedFilterColumn, visibleColumns, sortConfig, currentPage,
                 itemsPerPage>>
  /\ UNCHANGED archiveVars

RemoveAt(s, i) == SubSeq(s, 1, i - 1) \o SubSeq(s, i + 1, Len(s))

\* The load effect where the parser resolves with no rows instead of
\* rejecting.
ParseSettledResolvesEmpty(i) ==
  /\ i \in 1..Len(pending)
  /\ pending' = RemoveAt(pending, i)
  /\ LET r == parseCsvFile(pending[i])
     IN /\ data' = r.data
        /\ columns' = r.columns
        /\ visibleColumns' = AllVisible(r.columns)
        /\ loading' = FALSE
        /\ RunFilterEffect(r.data, globalSearchQuery, columnFilters, sortConfig)
        /\ UNCHANGED error
  /\ UNCHANGED <<file, globalSearchQuery, columnFilters, selectedFilterColumn,
                 sortConfig, itemsPerPage>>
  /\ UNCHANGED archiveVars

\* reader.onload of the i-th parse in flight: .then or .catch of the effect.
ParseSettled(i) ==
  /\ i \in 1..Len(pending)
  /\ pending' = RemoveAt(pending, i)
  /\ LET r == parseCsvFile(pending[i])
     IN IF r.ok
        THEN /\ data' = r.data
             /\ columns' = r.columns
             /\ visibleColumns' = AllVisible(r.columns)
             /\ loading' = FALSE
             /\ RunFilterEffect(r.data, globalSearchQuery, columnFilters, sortConfig)
             /\ UNCHANGED error
        ELSE /\ error' = "CSV file is empty"
             /\ loading' = FALSE
             /\ UNCHANGED <<data, columns, visibleColumns, filteredData, currentPage>>
  /\ UNCHANGED <<file, globalSearchQuery, columnFilters, selectedFilterColumn,
                 sortConfig, itemsPerPage>>
  /\ UNCHANGED archiveVars

\* reader.onerror of the i-th parse in flight.
ReadFailed(i) ==
  /\ i \in 1..Len(pending)
  /\ pending' = RemoveAt(pending, i)
  /\ error' = "Failed to read file"
  /\ loading' = FALSE
  /\ UNCHANGED <<file, data, columns, filteredData, globalSearchQuery,
                 columnFilters, selectedFilterColumn, visibleColumns, sortConfig,
                 currentPage, itemsPerPage>>
  /\ UNCHANGED archiveVars

\* onChange of the search box.
SetGlobalSearch(term) ==
  /\ Rendered
  /\ term # globalSearchQuery
  /\ globalSearchQuery' = term
  /\ RunFilterEffect(data, term, columnFilters, sortConfig)
  /\ UNCHANGED <<file, pending, data, columns, columnFilters,
                 selectedFilterColumn, visibleColumns, sortConfig, itemsPerPage,
                 loading, error>>
  /\ UNCHANGED archiveVars

\* onChange of the filter column select ("" is "Select column...").
SelectFilterColumn(c) ==
  /\ Rendered
  /\ c \in ColumnSet(columns) \cup {<<>>}
  /\ c # selectedFilterColumn
  /\ selectedFilterColumn' = c
  /\ UNCHANGED <<file, pending, data, columns, filteredData, globalSearchQuery,
                 columnFilters, visibleColumns, sortConfig, currentPage,
                 itemsPerPage, loading, error>>
  /\ UNCHANGED archiveVars

FilterIndex(filters, column) ==
  IF \E i \in 1..Len(filters) : filters[i].column = column
  THEN CHOOSE i \in 1..Len(filters) :
         /\ filters[i].column = column
         /\ \A j \in 1..(i - 1) : filters[j].column # column
  ELSE 0

\* addColumnFilter without the lookup of an existing filter.
addColumnFilterAppends(filters, column, value, operator) ==
  Append(filters, [column |-> column, value |-> value, operator |-> operator])

\* The new columnFilters of addColumnFilter.
addColumnFilter(filters, column, value, operator) ==
  LET existingFilterIndex == FilterIndex(filters, column)
      f == [column |-> column, value |-> value, operator |-> operator]
  IN IF existingFilterIndex >= 1
     THEN [filters EXCEPT ![existingFilterIndex] = f]
     ELSE Append(filters, f)

RECURSIVE removeColumnFilter(_, _)
removeColumnFilter(filters, column) ==
  IF filters = <<>> THEN <<>>
  ELSE (IF Head(filters).column # column THEN <<Head(filters)>> ELSE <<>>)
       \o removeColumnFilter(Tail(filters), column)

SubmitFilter(value, operator) ==
  /\ columnFilters' =
       addColumnFilter(columnFilters, selectedFilterColumn, value, operator)
  /\ selectedFilterColumn' = <<>>
  /\ RunFilterEffect(data, globalSearchQuery, columnFilters', sortConfig)
  /\ UNCHANGED <<file, pending, data, columns, globalSearchQuery,
                 visibleColumns, sortConfig, itemsPerPage, loading, error>>
  /\ UNCHANGED archiveVars

\* onClick of "Add Filter".
AddFilterClick(value, operator) ==
  /\ Rendered
  /\ selectedFilterColumn # <<>> /\ value # <<>>
  /\ SubmitFilter(value, operator)

\* onKeyDown of the filter value box with the Enter key.
FilterValueEnter(value, operator) ==
  /\ Rendered
  /\ selectedFilterColumn # <<>>
  /\ SubmitFilter(value, operator)

\* onClick of the X of an active filter.
RemoveFilterClick(i) ==
  /\ Rendered
  /\ i \in 1..Len(columnFilters)
  /\ columnFilters' = removeColumnFilter(columnFilters, columnFilters[i].column)
  /\ RunFilterEffect(data, globalSearchQuery, columnFilters', sortConfig)
  /\ UNCHANGED <<file, pending, data, columns, globalSearchQuery,
                 selectedFilterColumn, visibleColumns, sortConfig, itemsPerPage,
                 loading, error>>
  /\ UNCHANGED archiveVars

\* clearAllFilters without setGlobalSearchQuery("").
clearAllFiltersKeepsSearch ==
  /\ Rendered
  /\ getActiveFiltersCount > 0
  /\ columnFilters' = <<>>
  /\ RunFilterEffect(data, globalSearchQuery, <<>>, sortConfig)
  /\ UNCHANGED <<file, pending, data, columns, globalSearchQuery,
                 selectedFilterColumn, visibleColumns, sortConfig, itemsPerPage,
                 loading, error>>
  /\ UNCHANGED archiveVars

\* onClick of "Clear All", rendered while getActiveFiltersCount() > 0.
clearAllFilters ==
  /\ Rendered
  /\ getActiveFiltersCount > 0
  /\ columnFilters' = <<>>
  /\ globalSearchQuery' = <<>>
  /\ RunFilterEffect(data, <<>>, <<>>, sortConfig)
  /\ UNCHANGED <<file, pending, data, columns, selectedFilterColumn,
                 visibleColumns, sortConfig, itemsPerPage, loading, error>>
  /\ UNCHANGED archiveVars

\* The updater without the comparison of the key.
NextSortIgnoresKey(current, column) ==
  [key |-> column,
   direction |-> IF current.direction = "asc" THEN "desc" ELSE "asc"]

\* The updater of setSortConfig in handleSort.
NextSort(current, column) ==
  [key |-> column,
   direction |-> IF current.key = column /\ current.direction = "asc"
                 THEN "desc" ELSE "asc"]

\* onClick of a column header; only visible columns have one.
handleSort(column) ==
  /\ Rendered
  /\ \E i \in 1..Len(visibleColumnsList) : visibleColumnsList[i] = column
  /\ sortConfig' = NextSort(sortConfig, column)
  /\ RunFilterEffect(data, globalSearchQuery, columnFilters, sortConfig')
  /\ UNCHANGED <<file, pending, data, columns, globalSearchQuery, columnFilters,
                 selectedFilterColumn, visibleColumns, itemsPerPage, loading,
                 error>>
  /\ UNCHANGED archiveVars

\* The updater of setVisibleColumns in toggleColumnVisibility.
ToggleVisible(prev, column) == [prev EXCEPT ![column] = ~prev[column]]

\* toggleColumnVisibility with visibleColumns among the dependencies of the
\* filter effect.
toggleColumnVisibilityRefilters(column) ==
  /\ Rendered
  /\ column \in ColumnSet(columns)
  /\ visibleColumns' = ToggleVisible(visibleColumns, column)
  /\ RunFilterEffect(data, globalSearchQuery, columnFilters, sortConfig)
  /\ UNCHANGED <<file, pending, data, columns, globalSearchQuery,
                 columnFilters, selectedFilterColumn, sortConfig, itemsPerPage,
                 loading, error>>
  /\ UNCHANGED archiveVars

toggleColumnVisibility(column) ==
  /\ Rendered
  /\ column \in ColumnSet(columns)
  /\ visibleColumns' = ToggleVisible(visibleColumns, column)
  /\ UNCHANGED <<file, pending, data, columns, filteredData, globalSearchQuery,
                 columnFilters, selectedFilterColumn, sortConfig, currentPage,
                 itemsPerPage, loading, error>>
  /\ UNCHANGED archiveVars

goToPage(page) ==
  /\ Rendered
  /\ currentPage' = ClampPage(page, totalPages)
  /\ UNCHANGED <<file, pending, data, columns, filteredData, globalSearchQuery,
                 columnFilters, selectedFilterColumn, visibleColumns, sortConfig,
                 itemsPerPage, loading, error>>
  /\ UNCHANGED archiveVars

handleItemsPerPageChange(newItemsPerPage) ==
  /\ Rendered
  /\ itemsPerPage' = newItemsPerPage
  /\ currentPage' = 1
  /\ UNCHANGED <<file, pending, data, columns, filteredData, globalSearchQuery,
                 columnFilters, selectedFilterColumn, visibleColumns, sortConfig,
                 loading, error>>
  /\ UNCHANGED archiveVars

Init == InitWith(Files)

\* The component with file changes.
Next ==
  \/ \E f \in Files : ChangeFile(f)
  \/ \E i \in 1..MaxPending : ParseSettled(i)
  \/ \E i \in 1..MaxPending : ReadFailed(i)
  \/ \E term \in LoadSearchTerms : SetGlobalSearch(term)
  \/ \E c \in ColumnSet(columns) \cup {<<>>} : SelectFilterColumn(c)
  \/ \E fi \in LoadFilterInputs : AddFilterClick(fi.value, fi.operator)
  \/ \E fi \in LoadFilterInputs : FilterValueEnter(fi.value, fi.operator)
  \/ \E i \in 1..Len(columnFilters) : RemoveFilterClick(i)
  \/ clearAllFilters
  \/ \E c \in ColumnSet(columns) : handleSort(c)
  \/ \E c \in ColumnSet(columns) : toggleColumnVisibility(c)
  \/ \E n \in PageArgs : goToPage(n)
  \/ \E n \in PageSizes : handleItemsPerPageChange(n)

Spec == Init /\ [][Next]_vars

\* The query engine over one loaded file: the state after the parse of the
\* file has settled, and the user's operations from there.
InitQuery ==
  /\ file \in DataFiles
  /\ pending = <<>>
  /\ data = parseCsvFile(file).data
  /\ columns = parseCsvFile(file).columns
  /\ filteredData = data
  /\ globalSearchQuery = <<>>
  /\ columnFilters = <<>>
  /\ selectedFilterColumn = <<>>
  /\ visibleColumns = AllVisible(columns)
  /\ sortConfig = NoSort
  /\ currentPage = 1
  /\ itemsPerPage = 5
  /\ loading = FALSE
  /\ error = NoError
  /\ ArchiveIdle

NextQuery ==
  \/ \E term \in SearchTerms : SetGlobalSearch(term)
  \/ \E c \in ColumnSet(columns) \cup {<<>>} : SelectFilterColumn(c)
  \/ \E fi \in FilterInputs : AddFilterClick(fi.value, fi.operator)
  \/ \E fi \in FilterInputs : FilterValueEnter(fi.value, fi.operator)
  \/ \E i \in 1..Len(columnFilters) : RemoveFilterClick(i)
  \/ clearAllFilters
  \/ \E c \in ColumnSet(columns) : handleSort(c)
  \/ \E c \in ColumnSet(columns) : toggleColumnVisibility(c)
  \/ \E n \in PageArgs : goToPage(n)
  \/ \E n \in PageSizes : handleItemsPerPageChange(n)

SpecQuery == InitQuery /\ [][NextQuery]_vars

\* Parser and export over generated files: a header line of two distinct
\* names and one data line of two fields, as written in the file.
HeaderFields ==
  {<<"n">>, <<"1">>, <<QUOTE, "a", COMMA, "b", QUOTE>>}
RowFields ==
  {<<>>, <<"a">>, <<"0">>, <<"1", "0">>,
   <<QUOTE, "a", COMMA, "b", QUOTE>>,
   <<QUOTE, "a", QUOTE, QUOTE, "b", QUOTE>>,
   <<QUOTE, QUOTE, QUOTE, QUOTE, QUOTE, "a", QUOTE, QUOTE, QUOTE, QUOTE, QUOTE>>}

RoundTripTexts ==
  {t[1] \o <<COMMA>> \o t[2] \o <<NL>> \o t[3] \o <<COMMA>> \o t[4] \o <<NL>> :
     t \in {u \in HeaderFields \X HeaderFields \X RowFields \X RowFields :
              u[1] # u[2]}}

InitRoundTrip == InitWith(RoundTripTexts)

NextRoundTrip == \E i \in 1..MaxPending : ParseSettled(i)

SpecRoundTrip == InitRoundTrip /\ [][NextRoundTrip]_vars

-----------------------------------------------------------------------------
(* Properties                                                              *)

\* Number of occurrences of row r in rows.
RECURSIVE Count(_, _)
Count(r, rows) ==
  IF rows = <<>> THEN 0
  ELSE (IF Head(rows) = r THEN 1 ELSE 0) + Count(r, Tail(rows))

\* b holds the rows of a, each as often as a does, in some order.
SameRows(a, b) ==
  /\ Len(a) = Len(b)
  /\ \A i \in 1..Len(a) : Count(a[i], b) = Count(a[i], a)

\* a is b with some rows left out, the others in the order of b.
RECURSIVE IsSubsequence(_, _)
IsSubsequence(a, b) ==
  IF a = <<>> THEN TRUE
  ELSE IF b = <<>> THEN FALSE
  ELSE IF Head(a) = Head(b) THEN IsSubsequence(Tail(a), Tail(b))
  ELSE IsSubsequence(a, Tail(b))

PageInRange == 1 <= currentPage /\ currentPage <= Max(1, totalPages)

\* C1 as stated: after any sequence of query operations and loads the
\* current page lies in [1, max(1, ceil(filteredCount / itemsPerPage))], and
\* the page count is at least 1 even when the filtered set is empty.
C1_PageCountAtLeastOne ==
  PageInRange /\ (Rendered => totalPages >= 1)

\* C1 (amended): after any sequence of query operations and loads the current
\* page lies in [1, max(1, totalPages)], where the page count totalPages is
\* ceil(filteredCount / itemsPerPage): 0 exactly when the filtered set is
\* empty, and the current page is then 1.
C1_PageClamped ==
  /\ PageInRange
  /\ (totalPages = 0) = (filteredData = <<>>)
  /\ (filteredData = <<>> => currentPage = 1)

\* A loaded file whose rows are all filtered out: no page, current page 1.
C1_Witness ==
  Rendered /\ data # <<>> /\ filteredData = <<>> /\ totalPages = 0
  /\ currentPage = 1

\* C2: a step that changes the search term, the column filters, the sort
\* configuration or itemsPerPage ends with currentPage = 1.
C2_ChangeResetsPage ==
  [][(\/ globalSearchQuery' # globalSearchQuery
      \/ columnFilters' # columnFilters
      \/ sortConfig' # sortConfig
      \/ itemsPerPage' # itemsPerPage) => currentPage' = 1]_vars

\* Back on page 1 of several after the page size and the filters changed.
C2_Witness ==
  /\ Rendered /\ itemsPerPage = 10 /\ columnFilters # <<>>
  /\ sortConfig # NoSort /\ totalPages >= 2 /\ currentPage = 1

\* Bound of the page sizes the slices are tried with.
MaxPerPage == 6

RECURSIVE ConcatPages(_, _, _, _)
ConcatPages(rows, perPage, page, lastPage) ==
  IF page > lastPage THEN <<>>
  ELSE PageSlice(rows, page, perPage)
       \o ConcatPages(rows, perPage, page + 1, lastPage)

\* C3: for the filtered/sorted set and every page size, each page slice has
\* at most itemsPerPage rows and the slices of pages 1..totalPages, put end
\* to end, are the filtered/sorted set itself.
C3_PagesPartition ==
  \A perPage \in (1..MaxPerPage) \cup PageSizes :
    LET pages == TotalPages(Len(filteredData), perPage)
    IN /\ \A p \in 1..pages : Len(PageSlice(filteredData, p, perPage)) <= perPage
       /\ ConcatPages(filteredData, perPage, 1, pages) = filteredData

\* The last of three pages, holding the single remaining row.
C3_Witness ==
  Rendered /\ totalPages = 3 /\ currentPage = 3 /\ Len(currentData) = 1

\* The predicate of a column filter as the specification words it: the
\* operator on the lower-cased string form of the cell, greater and less as
\* numeric comparison.
SatisfiesFilter(row, filter) ==
  LET cell == toLowerCase(String(Get(row, filter.column)))
      value == toLowerCase(filter.value)
      cellNum == Number(Get(row, filter.column))
      valueNum == Number(StrV(filter.value))
  IN CASE filter.operator = "contains" -> includes(cell, value)
       [] filter.operator = "equals" -> cell = value
       [] filter.operator = "startsWith" -> startsWith(cell, value)
       [] filter.operator = "endsWith" -> endsWith(cell, value)
       [] filter.operator = "greater" ->
            ~cellNum.nan /\ ~valueNum.nan /\ cellNum.n > valueNum.n
       [] filter.operator = "less" ->
            ~cellNum.nan /\ ~valueNum.nan /\ cellNum.n < valueNum.n

SatisfiesSearch(row, query) ==
  \E i \in 1..Len(row) :
    includes(toLowerCase(String(row[i].v)), toLowerCase(query))

\* C4: the rows kept by search and column filters are a sub-sequence of the
\* full row set, and each kept row satisfies the search predicate and every
\* filter of the active filter list under its operator.
C4_RetainedSatisfyAll ==
  LET kept == FilterEffect(data, globalSearchQuery, columnFilters, NoSort)
  IN /\ IsSubsequence(kept, data)
     /\ Len(filteredData) <= Len(data)
     /\ SameRows(kept, filteredData)
     /\ \A i \in 1..Len(filteredData) :
          /\ SatisfiesSearch(filteredData[i], globalSearchQuery)
          /\ \A j \in 1..Len(columnFilters) :
               SatisfiesFilter(filteredData[i], columnFilters[j])

AtMostOnePerColumn ==
  \A i, j \in 1..Len(columnFilters) :
    columnFilters[i].column = columnFilters[j].column => i = j

\* A step that submits a filter for the selected column c: where c had a
\* filter, the list keeps its length and every other entry, and the entry of
\* c stays at its index; otherwise the filter is appended.
SubmitReplacesInPlace ==
  (/\ selectedFilterColumn # <<>>
   /\ selectedFilterColumn' = <<>>
   /\ columnFilters' # columnFilters)
  => LET c == selectedFilterColumn
         at == FilterIndex(columnFilters, c)
     IN IF at >= 1
        THEN /\ Len(columnFilters') = Len(columnFilters)
             /\ columnFilters'[at].column = c
             /\ \A k \in 1..Len(columnFilters) :
                  k # at => columnFilters'[k] = columnFilters[k]
        ELSE /\ Len(columnFilters') = Len(columnFilters) + 1
             /\ SubSeq(columnFilters', 1, Len(columnFilters)) = columnFilters
             /\ columnFilters'[Len(columnFilters')].column = c

\* C5: the active filter list never holds two filters of one column, and
\* adding a filter for a column that has one replaces it at its position.
C5_OneFilterPerColumn ==
  [](AtMostOnePerColumn) /\ [][SubmitReplacesInPlace]_vars

\* Both columns filtered, so that every further submission is a replacement.
C5_Witness ==
  /\ Len(columnFilters) = 2
  /\ columnFilters[1].operator = "greater"
  /\ columnFilters[2].operator = "startsWith"
  /\ selectedFilterColumn = <<>>

Flip(direction) == IF direction = "asc" THEN "desc" ELSE "asc"

\* C6: a step that changes the sort configuration flips the direction when
\* the key stays, and yields ascending when the key is new or none was set.
C6_SortToggles ==
  [][sortConfig' # sortConfig =>
       /\ sortConfig'.key \in ColumnSet(columns)
       /\ IF sortConfig # NoSort /\ sortConfig'.key = sortConfig.key
          THEN sortConfig'.direction = Flip(sortConfig.direction)
          ELSE sortConfig'.direction = "asc"]_vars

\* A descending sort: its key was clicked while sorted ascending.
C6_Witness == Rendered /\ sortConfig # NoSort /\ sortConfig.direction = "desc"

\* C7: a step that empties a filter list of two filters at once (clearAll)
\* also empties the search term, and once filters and search are both empty
\* the filtered set holds every parsed row.
C7_ClearAllClearsBoth ==
  [][/\ (Len(columnFilters) >= 2 /\ columnFilters' = <<>>)
          => globalSearchQuery' = <<>>
     /\ (getActiveFiltersCount > 0 /\ columnFilters' = <<>>
         /\ globalSearchQuery' = <<>>)
          => SameRows(data', filteredData')]_vars

\* Two filters and a search term narrowing the rows, "Clear All" on offer.
C7_Witness ==
  /\ Rendered /\ Len(columnFilters) = 2 /\ globalSearchQuery # <<>>
  /\ Len(filteredData) < Len(data) /\ ENABLED clearAllFilters

\* C8: a step that changes the column visibility leaves rows, counts, page,
\* search, filters, sort and the exported content as they were, and the
\* export always carries every column.
C8_VisibilityIsProjection ==
  /\ [][visibleColumns' # visibleColumns =>
          /\ UNCHANGED <<data, columns, filteredData, currentPage, itemsPerPage,
                         globalSearchQuery, columnFilters, sortConfig>>
          /\ exportCsvData(filteredData') = exportCsvData(filteredData)]_vars
  /\ [](exportData.emitted =>
          ColumnSet(split(split(exportData.text, NL)[1], COMMA)) = ColumnSet(columns))

\* A hidden column that is the sort key and carries a filter, rows showing.
C8_Witness ==
  /\ Rendered /\ filteredData # <<>>
  /\ \E c \in ColumnSet(columns) :
       /\ ~visibleColumns[c]
       /\ sortConfig.key = c
       /\ FilterIndex(columnFilters, c) >= 1

\* One serialized field: the text of the value, wrapped in quotes with the
\* inner quotes doubled when it holds a comma, a quote or a line break.
SerializedField(v) ==
  IF \E i \in 1..Len(String(v)) : String(v)[i] \in {COMMA, QUOTE, NL}
  THEN <<QUOTE>> \o DoubleQuotes(String(v)) \o <<QUOTE>>
  ELSE String(v)

Serialized(rows, header) ==
  join(<<join(header, <<COMMA>>)>>
       \o [i \in 1..Len(rows) |->
             join([k \in 1..Len(header) |-> SerializedField(Get(rows[i], header[k]))],
                  <<COMMA>>)],
       <<NL>>)

Orders(cols) ==
  {o \in [1..Len(cols) -> ColumnSet(cols)] : ColumnSet(o) = ColumnSet(cols)}

\* C9: whenever the table is shown, export emits the header line of the
\* column names and one line per filtered row in order, values quoted as
\* needed, also for an empty filtered set.
C9_ExportSerializesFiltered ==
  Rendered =>
    /\ exportData.emitted
    /\ \E header \in Orders(columns) :
         exportData.text = Serialized(filteredData, header)

\* C10: for the rows R the parser produced, parsing the text of export(R)
\* gives the same column list in the same order and, row by row and column
\* by column, a value with the same text as in R.
C10_RoundTrip ==
  (Rendered /\ data # <<>>) =>
    LET exported == exportCsvData(data)
        again == parseCsvFile(exported.text)
    IN /\ exported.emitted
       /\ again.ok
       /\ again.columns = columns
       /\ Len(again.data) = Len(data)
       /\ \A i \in 1..Len(data) : \A c \in ColumnSet(columns) :
            String(Get(again.data[i], c)) = String(Get(data[i], c))

-----------------------------------------------------------------------------
(* The parser over data lines shorter and longer than the header           *)

\* Files of a header line of two names and two data lines of one to three
\* unquoted fields each.
RaggedHeaders == {<<"n", COMMA, "1">>, <<"1", COMMA, "n">>}
RaggedFields == {<<>>, <<"a">>, <<"0">>}
RaggedLines ==
  RaggedFields
  \cup {t[1] \o <<COMMA>> \o t[2] : t \in RaggedFields \X RaggedFields}
  \cup {t[1] \o <<COMMA>> \o t[2] \o <<COMMA>> \o t[3] :
          t \in RaggedFields \X RaggedFields \X RaggedFields}
RaggedTexts ==
  {t[1] \o <<NL>> \o t[2] \o <<NL>> \o t[3] \o <<NL>> :
     t \in RaggedHeaders \X RaggedLines \X RaggedLines}

InitRagged == InitWith(RaggedTexts)

NextRagged == \E i \in 1..MaxPending : ParseSettled(i)

SpecRagged == InitRagged /\ [][NextRagged]_vars

\* The parse of the file has settled with rows.
Parsed == pending = <<>> /\ ~loading /\ error = NoError

\* The fields of a data line of unquoted fields, as written in the file.
FieldsOf(line) == split(line, COMMA)

\* The row holds, for the j-th column, the text of the j-th field of the
\* line, and the empty string where the line has no j-th field.
RowOfLine(row, cols, line) ==
  \A j \in 1..Len(cols) :
    IF j <= Len(FieldsOf(line))
    THEN String(Get(row, cols[j])) = FieldsOf(line)[j]
    ELSE Get(row, cols[j]) = StrV(<<>>)

RowKeys(row) == {row[i].k : i \in 1..Len(row)}

\* C11: every row of the parser has exactly the columns of the header line,
\* each once: a data line with fewer fields than the header gives the empty
\* string for each missing trailing column, and the fields beyond the
\* header's length appear in no row.
C11_RowsHaveHeaderColumns ==
  Parsed =>
    /\ columns = ParseHeaders(split(file, NL)[1])
    /\ \A i \in 1..Len(data) :
         /\ RowKeys(data[i]) = ColumnSet(columns)
         /\ Len(data[i]) = Len(columns)
         /\ \E l \in 2..3 : RowOfLine(data[i], columns, split(file, NL)[l])

\* Both data lines gave a row, the first with fewer fields than the header
\* and the second with more.
C11_Witness ==
  /\ Parsed
  /\ Len(data) = 2
  /\ Len(FieldsOf(split(file, NL)[2])) < Len(columns)
  /\ Len(FieldsOf(split(file, NL)[3])) > Len(columns)

-----------------------------------------------------------------------------
(* The empty file                                                          *)

\* The load effect alone: the file prop changes, parses settle, and the
\* user searches and sorts what is on screen meanwhile.
NextLoad ==
  \/ \E f \in Files : ChangeFile(f)
  \/ \E i \in 1..MaxPending : ParseSettled(i)
  \/ \E i \in 1..MaxPending : ReadFailed(i)
  \/ \E term \in LoadSearchTerms : SetGlobalSearch(term)
  \/ \E c \in ColumnSet(columns) : handleSort(c)

SpecLoad == Init /\ [][NextLoad]_vars

\* The text has no non-blank line.
NoLines(text) == \A l \in 1..Len(split(text, NL)) : trim(split(text, NL)[l]) = <<>>

\* C12: the parser rejects a text without non-blank lines; when the read of
\* such a file settles, the viewer shows the error "CSV file is empty" with
\* loading finished, the rows and columns it held are kept, and no parse is
\* started unless the file prop changes.
C12_EmptyInputFails ==
  [][/\ \A i \in 1..Len(pending) :
          (/\ pending' = RemoveAt(pending, i)
           /\ error' # "Failed to read file"
           /\ NoLines(pending[i]))
          => /\ ~parseCsvFile(pending[i]).ok
             /\ error' = "CSV file is empty"
             /\ ~loading'
             /\ ~Rendered'
             /\ UNCHANGED <<data, columns, filteredData>>
     /\ Len(pending') > Len(pending) => file' # file]_vars

\* The empty file was loaded after a file with rows: the error is shown and
\* the rows of the earlier file are still held.
C12_Witness ==
  /\ file = TextE
  /\ pending = <<>>
  /\ error = "CSV file is empty"
  /\ ~loading
  /\ data # <<>>

-----------------------------------------------------------------------------
(* The numeric operators of the column filter                              *)

\* What the user types in the filter value box with greater or less
\* selected: a number, a letter, a space.
NumericFilterInputs ==
  {[value |-> <<"1">>, operator |-> "greater"],
   [value |-> <<"1">>, operator |-> "less"],
   [value |-> <<"a">>, operator |-> "less"],
   [value |-> <<SPACE>>, operator |-> "greater"]}

NextNumeric ==
  \/ \E c \in ColumnSet(columns) \cup {<<>>} : SelectFilterColumn(c)
  \/ \E fi \in NumericFilterInputs : AddFilterClick(fi.value, fi.operator)
  \/ \E i \in 1..Len(columnFilters) : RemoveFilterClick(i)

SpecNumeric == InitQuery /\ [][NextNumeric]_vars

\* The value is a number, or the text of one.
IsNumeric(v) == v.num \/ IsDecimal(trim(v.s))

\* C20: under a greater or less filter a row is retained only if its cell
\* in the filtered column and the filter value are both numeric and the
\* numeric comparison holds; a text cell or an empty cell drops the row.
C20_NumericComparisonOnly ==
  \A f \in 1..Len(columnFilters) :
    columnFilters[f].operator \in {"greater", "less"} =>
      \A r \in 1..Len(filteredData) :
        LET cell == Get(filteredData[r], columnFilters[f].column)
            value == StrV(columnFilters[f].value)
        IN /\ IsNumeric(cell)
           /\ IsNumeric(value)
           /\ IF columnFilters[f].operator = "greater"
              THEN Number(cell).n > Number(value).n
              ELSE Number(cell).n < Number(value).n

-----------------------------------------------------------------------------
(* parseZipFile: the walk over the entries of an archive                   *)

SLASH == "/"
DOT == "."

\* The viewer while the archive side is exercised: no file is selected.
ViewerIdle ==
  /\ file = <<>>
  /\ pending = <<>>
  /\ data = <<>>
  /\ columns = <<>>
  /\ filteredData = <<>>
  /\ globalSearchQuery = <<>>
  /\ columnFilters = <<>>
  /\ selectedFilterColumn = <<>>
  /\ visibleColumns = AllVisible(<<>>)
  /\ sortConfig = NoSort
  /\ currentPage = 1
  /\ itemsPerPage = 5
  /\ loading = FALSE
  /\ error = NoError

\* parts.filter(Boolean)
RECURSIVE FilterBoolean(_)
FilterBoolean(parts) ==
  IF parts = <<>> THEN <<>>
  ELSE (IF Head(parts) # <<>> THEN <<Head(parts)>> ELSE <<>>)
       \o FilterBoolean(Tail(parts))

\* relativePath.split("/").filter(Boolean)
Parts(relativePath) == FilterBoolean(split(relativePath, SLASH))

\* parts.slice(0, -1).join("/") and parts.join("/")
ParentPath(parts) == join(SubSeq(parts, 1, Len(parts) - 1), <<SLASH>>)
FullPath(parts) == join(parts, <<SLASH>>)

\* name.split(".").pop()?.toLowerCase()
Extension(name) ==
  LET segs == split(name, DOT) IN toLowerCase(segs[Len(segs)])

\* ext === "csv" || ext === "pdf" with every extension let through.
RetainsAnyFile(ext) == TRUE

\* ext === "csv" || ext === "pdf"
Retains(ext) == ext = <<"c", "s", "v">> \/ ext = <<"p", "d", "f">>

\* file.name.replace(/\.zip$/, "")
StripZip(name) ==
  IF endsWith(name, <<DOT, "z", "i", "p">>)
  THEN SubSeq(name, 1, Len(name) - 4)
  ELSE name

\* The node objects.  createdAt holds the instant its ISO string denotes.
FolderNode(name, createdAt, modifiedBy) ==
  [name |-> name, type |-> "folder", children |-> <<>>,
   createdAt |-> createdAt, modifiedBy |-> modifiedBy]
FileNode(name, ext, createdAt, modifiedBy) ==
  [name |-> name, type |-> "file", fileType |-> ext,
   createdAt |-> createdAt, modifiedBy |-> modifiedBy]

\* A folder object is referred to by the positions that lead to it from
\* the root; NodeAt follows the reference.
RECURSIVE NodeAt(_, _)
NodeAt(node, loc) ==
  IF loc = <<>> THEN node ELSE NodeAt(node.children[Head(loc)], Tail(loc))

\* folder.children.push(child) on the folder at loc.
RECURSIVE PushChild(_, _, _)
PushChild(node, loc, child) ==
  IF loc = <<>> THEN [node EXCEPT !.children = Append(@, child)]
  ELSE [node EXCEPT !.children[Head(loc)] = PushChild(@, Tail(loc), child)]

\* folderMap.set(key, folder)
MapSet(map, key, loc) ==
  [k \in DOMAIN map \cup {key} |-> IF k = key THEN loc ELSE map[k]]

\* The body of the loop for one entry whose parent folder is missing, with
\* the root folder taken in its place.
WalkEntryAdoptsOrphans(root, map, entry, modifiedBy) ==
  LET parts == Parts(entry.path)
      name == parts[Len(parts)]
      parentPath == ParentPath(parts)
      parentLoc == IF parentPath \in DOMAIN map THEN map[parentPath] ELSE <<>>
  IN IF entry.dir
     THEN [rootFolder |-> PushChild(root, parentLoc, FolderNode(name, entry.date, modifiedBy)),
           folderMap |->
             MapSet(map, FullPath(parts),
                    Append(parentLoc, Len(NodeAt(root, parentLoc).children) + 1))]
     ELSE IF Retains(Extension(name))
     THEN [rootFolder |->
             PushChild(root, parentLoc, FileNode(name, Extension(name), entry.date, modifiedBy)),
           folderMap |-> map]
     ELSE [rootFolder |-> root, folderMap |-> map]

\* The body of the loop of parseZipFile for one entry: the root folder and
\* the folder map after it.
WalkEntry(root, map, entry, modifiedBy) ==
  LET parts == Parts(entry.path)
      name == parts[Len(parts)]
      parentPath == ParentPath(parts)
  IN IF parentPath \notin DOMAIN map
     THEN [rootFolder |-> root, folderMap |-> map]
     ELSE LET parentLoc == map[parentPath]
          IN IF entry.dir
             THEN [rootFolder |->
                     PushChild(root, parentLoc, FolderNode(name, entry.date, modifiedBy)),
                   folderMap |->
                     MapSet(map, FullPath(parts),
                            Append(parentLoc,
                                   Len(NodeAt(root, parentLoc).children) + 1))]
             ELSE IF Retains(Extension(name))
             THEN [rootFolder |->
                     PushChild(root, parentLoc,
                               FileNode(name, Extension(name), entry.date, modifiedBy)),
                   folderMap |-> map]
             ELSE [rootFolder |-> root, folderMap |-> map]

\* The archive that is walked: file.name, file.lastModified, and the entries
\* with the date the archive records for each; the attribution argument.
ArchiveName == <<"r", DOT, "z", "i", "p">>
LastModified == 4
ModifiedBy == "You"
ArchiveEntries ==
  <<[path |-> <<"a", SLASH>>, dir |-> TRUE, date |-> 2],
    [path |-> <<"a", SLASH, "b", DOT, "c", "s", "v">>, dir |-> FALSE, date |-> 1],
    [path |-> <<"a", SLASH, "c", DOT, "t", "x", "t">>, dir |-> FALSE, date |-> 3],
    [path |-> <<"d", DOT, "p", "d", "f">>, dir |-> FALSE, date |-> 1],
    [path |-> <<"a", SLASH, "E", SLASH>>, dir |-> TRUE, date |-> 1],
    [path |-> <<"a", SLASH, "E", SLASH, "F", DOT, "C", "S", "V">>,
     dir |-> FALSE, date |-> 3]>>

\* Every order in which zip.files can yield the entries.
EntryOrders ==
  {[i \in 1..Len(ArchiveEntries) |-> ArchiveEntries[p[i]]] :
     p \in Permutations(1..Len(ArchiveEntries))}

\* The objects of parseZipFile before the loop.
NewRootFolder == FolderNode(StripZip(ArchiveName), LastModified, ModifiedBy)
NewFolderMap == (<<>> :> <<>>)

InitWalk ==
  /\ ViewerIdle
  /\ entries \in EntryOrders
  /\ walkIndex = 0
  /\ walkStatus = "running"
  /\ rootFolder = NewRootFolder
  /\ folderMap = NewFolderMap
  /\ structure = NoStructure
  /\ searchQuery = <<>>
  /\ sortBy = "name"
  /\ uploadStatus = "idle"
  /\ isUploading = FALSE
  /\ upload = NoUpload

walkFrame ==
  UNCHANGED <<viewerVars, entries, structure, searchQuery, sortBy,
              uploadStatus, isUploading, upload>>

\* JSZip.loadAsync rejects: the archive cannot be decoded.
LoadAsyncFails ==
  /\ walkStatus = "running"
  /\ walkIndex = 0
  /\ walkStatus' = "rejected"
  /\ UNCHANGED <<walkIndex, rootFolder, folderMap>>
  /\ walkFrame

\* The entry the next iteration of the loop takes.
NextEntry == entries[walkIndex + 1]

\* The next entry is a file the loop reads with entry.async("blob").
ReadsBlob ==
  /\ ~NextEntry.dir
  /\ ParentPath(Parts(NextEntry.path)) \in DOMAIN folderMap
  /\ Retains(Extension(Parts(NextEntry.path)[Len(Parts(NextEntry.path))]))

\* entry.async("blob") rejects, and parseZipFile with it.
EntryBlobFails ==
  /\ walkStatus = "running"
  /\ walkIndex < Len(entries)
  /\ ReadsBlob
  /\ walkStatus' = "rejected"
  /\ UNCHANGED <<walkIndex, rootFolder, folderMap>>
  /\ walkFrame

\* One iteration of the loop; after the last one parseZipFile returns
\* rootFolder.
WalkStep ==
  /\ walkStatus = "running"
  /\ walkIndex < Len(entries)
  /\ LET r == WalkEntry(rootFolder, folderMap, NextEntry, ModifiedBy)
     IN /\ rootFolder' = r.rootFolder
        /\ folderMap' = r.folderMap
  /\ walkIndex' = walkIndex + 1
  /\ walkStatus' = IF walkIndex' = Len(entries) THEN "resolved" ELSE "running"
  /\ walkFrame

NextWalk == LoadAsyncFails \/ EntryBlobFails \/ WalkStep

SpecWalk == InitWalk /\ [][NextWalk]_vars

\* The references to the nodes of a tree, the root's being <<>>.
RECURSIVE Locs(_)
Locs(node) ==
  IF node.type = "file" THEN {<<>>}
  ELSE {<<>>} \cup UNION {{<<i>> \o l : l \in Locs(node.children[i])} :
                           i \in 1..Len(node.children)}

\* The names from below the root down to the node at loc, joined by "/".
NamePath(root, loc) ==
  FullPath([i \in 1..Len(loc) |-> NodeAt(root, SubSeq(loc, 1, i)).name])

NodePaths(root) == {NamePath(root, l) : l \in Locs(root) \ {<<>>}}

EntryName(entry) == Parts(entry.path)[Len(Parts(entry.path))]
EntryPath(entry) == FullPath(Parts(entry.path))
EntryParent(entry) == ParentPath(Parts(entry.path))

\* The i-th entry of the order lies below the root and no directory entry
\* before it that was itself kept has its parent path.
RECURSIVE Orphan(_, _)
Orphan(es, i) ==
  /\ EntryParent(es[i]) # <<>>
  /\ ~\E j \in 1..(i - 1) :
        /\ es[j].dir
        /\ EntryPath(es[j]) = EntryParent(es[i])
        /\ ~Orphan(es, j)

\* The entry is a directory or a file of a supported extension.
Wanted(entry) == entry.dir \/ Retains(Extension(EntryName(entry)))

\* C13: in every order of the entries, an entry taken while its parent path
\* is not registered is skipped: it is nowhere in the tree, a skipped
\* directory is not registered, the skip does not end the walk with an
\* error, and the tree holds exactly the wanted entries that were not
\* skipped, those after a skipped entry included.
C13_OrphansSkipped ==
  /\ \A i \in 1..walkIndex :
       Orphan(entries, i) =>
         /\ EntryPath(entries[i]) \notin NodePaths(rootFolder)
         /\ EntryPath(entries[i]) \notin DOMAIN folderMap
  /\ Cardinality(Locs(rootFolder)) - 1 =
       Cardinality({i \in 1..walkIndex :
                      ~Orphan(entries, i) /\ Wanted(entries[i])})
  /\ (walkStatus = "rejected" /\ walkIndex > 0) => ~Orphan(entries, walkIndex + 1)

\* The walk has returned; a directory was skipped, an entry below it was
\* skipped after it, and a still later file is in the tree.
C13_Witness ==
  /\ walkStatus = "resolved"
  /\ \E i, j, k \in 1..Len(entries) :
       /\ i < j /\ j < k
       /\ entries[i].dir /\ Orphan(entries, i)
       /\ EntryParent(entries[j]) = EntryPath(entries[i])
       /\ ~entries[k].dir /\ EntryPath(entries[k]) \in NodePaths(rootFolder)

CsvExt == <<"c", "s", "v">>
PdfExt == <<"p", "d", "f">>

Position(es, path) == CHOOSE i \in 1..Len(es) : es[i].path = path

\* C14: every file node of the tree has a fileType of csv or pdf that is the
\* lower-cased last "."-segment of its name, and no children; a file entry
\* of another extension is not in the tree; every node is a child of the
\* folder registered at its parent path and stands for an entry at that
\* path; with a/ taken before a/b.csv, the tree has a, a/b.csv and d.pdf
\* and not a/c.txt.
C14_SupportedFilesOnly ==
  /\ \A l \in Locs(rootFolder) \ {<<>>} :
       LET n == NodeAt(rootFolder, l)
           parentLoc == SubSeq(l, 1, Len(l) - 1)
           parentPath == NamePath(rootFolder, parentLoc)
       IN /\ n.type = "file" =>
               /\ n.fileType \in {CsvExt, PdfExt}
               /\ n.fileType = toLowerCase(split(n.name, DOT)[Len(split(n.name, DOT))])
               /\ "children" \notin DOMAIN n
          /\ NodeAt(rootFolder, parentLoc).type = "folder"
          /\ parentPath \in DOMAIN folderMap
          /\ folderMap[parentPath] = parentLoc
          /\ \E i \in 1..walkIndex :
               /\ EntryPath(entries[i]) = NamePath(rootFolder, l)
               /\ entries[i].dir = (n.type = "folder")
  /\ \A i \in 1..walkIndex :
       (~entries[i].dir /\ Extension(EntryName(entries[i])) \notin {CsvExt, PdfExt})
       => EntryPath(entries[i]) \notin NodePaths(rootFolder)
  /\ (/\ walkStatus = "resolved"
      /\ Position(entries, <<"a", SLASH>>)
           < Position(entries, <<"a", SLASH, "b", DOT, "c", "s", "v">>))
     => /\ {<<"a">>, <<"a", SLASH, "b", DOT, "c", "s", "v">>,
             <<"d", DOT, "p", "d", "f">>} \subseteq NodePaths(rootFolder)
        /\ <<"a", SLASH, "c", DOT, "t", "x", "t">> \notin NodePaths(rootFolder)

\* The walk has returned with every entry in the tree but a/c.txt.
C14_Witness ==
  /\ walkStatus = "resolved"
  /\ Cardinality(Locs(rootFolder)) = Len(entries)
  /\ \E l \in Locs(rootFolder) :
       /\ NodeAt(rootFolder, l).name = <<"F", DOT, "C", "S", "V">>
       /\ NodeAt(rootFolder, l).fileType = CsvExt

-----------------------------------------------------------------------------
(* filterAndSortTree, getFileCount and the FileExplorer component          *)

\* The collation order of String.prototype.localeCompare over the
\* characters of the names: punctuation, digits, letters; the case of a
\* letter counts only between strings that are otherwise equal, the lower
\* case first.
Collation ==
  <<DOT, "0", "1", "2", "3", "4", "5", "6", "7", "8", "9",
    "a", "b", "c", "d", "e", "f", "g", "h", "i", "j", "k", "l", "m",
    "n", "o", "p", "q", "r", "s", "t", "u", "v", "w", "x", "y", "z">>

CollationWeight(c) ==
  CHOOSE i \in 1..Len(Collation) : Collation[i] = LowerChar(c)

RECURSIVE PrimaryCompare(_, _)
PrimaryCompare(a, b) ==
  IF a = <<>> /\ b = <<>> THEN 0
  ELSE IF a = <<>> THEN -1
  ELSE IF b = <<>> THEN 1
  ELSE IF CollationWeight(Head(a)) < CollationWeight(Head(b)) THEN -1
  ELSE IF CollationWeight(Head(a)) > CollationWeight(Head(b)) THEN 1
  ELSE PrimaryCompare(Tail(a), Tail(b))

RECURSIVE CaseCompare(_, _)
CaseCompare(a, b) ==
  IF a = <<>> THEN 0
  ELSE IF Head(a) = Head(b) THEN CaseCompare(Tail(a), Tail(b))
  ELSE IF Head(b) \in UpperLetters THEN -1
  ELSE 1

\* a.localeCompare(b): negative, zero or positive.
localeCompare(a, b) ==
  IF PrimaryCompare(a, b) # 0 THEN PrimaryCompare(a, b) ELSE CaseCompare(a, b)

\* compareFn of filterAndSortTree; createdAt holds the instant
\* new Date(createdAt).getTime() yields.
compareFn(a, b, by) ==
  IF by = "name" THEN localeCompare(a.name, b.name)
  ELSE a.createdAt - b.createdAt

\* Array.prototype.sort with compareFn, which is stable.
RECURSIVE InsertNode(_, _, _)
InsertNode(sorted, x, by) ==
  IF sorted = <<>> THEN <<x>>
  ELSE IF compareFn(sorted[Len(sorted)], x, by) <= 0 THEN Append(sorted, x)
  ELSE Append(InsertNode(SubSeq(sorted, 1, Len(sorted) - 1), x, by),
              sorted[Len(sorted)])

RECURSIVE SortNodes(_, _, _)
SortNodes(nodes, by, acc) ==
  IF nodes = <<>> THEN acc
  ELSE SortNodes(Tail(nodes), by, InsertNode(acc, Head(nodes), by))

\* filteredChildren.filter(child => child.type === type)
RECURSIVE OfType(_, _)
OfType(nodes, type) ==
  IF nodes = <<>> THEN <<>>
  ELSE (IF Head(nodes).type = type THEN <<Head(nodes)>> ELSE <<>>)
       \o OfType(Tail(nodes), type)

\* The children sorted as one group.
SortedChildrenUngrouped(filteredChildren, by) ==
  SortNodes(filteredChildren, by, <<>>)

\* sortedChildren: the folders and the files, each sorted, folders first.
SortedChildren(filteredChildren, by) ==
  SortNodes(OfType(filteredChildren, "folder"), by, <<>>)
  \o SortNodes(OfType(filteredChildren, "file"), by, <<>>)

\* The return of a folder without the test of the length.
FolderResultKeepsEmpty(node, sortedChildren) ==
  <<[node EXCEPT !.children = sortedChildren]>>

\* The return of a folder: a copy with the sorted children, or nothing.
FolderResult(node, sortedChildren) ==
  IF Len(sortedChildren) > 0
  THEN <<[node EXCEPT !.children = sortedChildren]>>
  ELSE <<>>

\* filterAndSortTree: the array it returns, of no or one node.
RECURSIVE filterAndSortTree(_, _, _)
RECURSIVE FlatMapChildren(_, _, _)
FlatMapChildren(children, query, by) ==
  IF children = <<>> THEN <<>>
  ELSE filterAndSortTree(Head(children), query, by)
       \o FlatMapChildren(Tail(children), query, by)

filterAndSortTree(node, query, by) ==
  IF node.type = "file"
  THEN IF includes(toLowerCase(node.name), toLowerCase(query))
       THEN <<node>> ELSE <<>>
  ELSE FolderResult(node,
         SortedChildren(FlatMapChildren(node.children, query, by), by))

\* getFileCount
RECURSIVE getFileCount(_)
RECURSIVE SumFileCounts(_)
SumFileCounts(children) ==
  IF children = <<>> THEN 0
  ELSE getFileCount(Head(children)) + SumFileCounts(Tail(children))

getFileCount(node) ==
  IF node.type = "file" THEN 1 ELSE SumFileCounts(node.children)

\* The node handed to filterAndSortTree with node.children sorted by the
\* call.
filterAndSortTreeInputSorted(node, query, by) ==
  IF node.type = "file" THEN node
  ELSE [node EXCEPT !.children = SortNodes(@, by, <<>>)]

\* The node handed to filterAndSortTree, as the call leaves it: flatMap and
\* filter allocate the arrays that are sorted and the spread allocates the
\* object that gets them, so the call writes to no object it was given.
filterAndSortTreeInput(node, query, by) == node

\* parseZipFile as a whole: the root folder it resolves with.
RECURSIVE WalkAll(_, _, _, _)
WalkAll(root, map, es, modifiedBy) ==
  IF es = <<>> THEN root
  ELSE LET r == WalkEntry(root, map, Head(es), modifiedBy)
       IN WalkAll(r.rootFolder, r.folderMap, Tail(es), modifiedBy)

parseZipFile(es, modifiedBy) ==
  WalkAll(FolderNode(StripZip(ArchiveName), LastModified, modifiedBy),
          NewFolderMap, es, modifiedBy)

\* The trees FileExplorer is given: those of an archive of three files and
\* two folders with a file each, in every order of its entries.
ExplorerEntries ==
  <<[path |-> <<"b", DOT, "c", "s", "v">>, dir |-> FALSE, date |-> 3],
    [path |-> <<"B", DOT, "p", "d", "f">>, dir |-> FALSE, date |-> 1],
    [path |-> <<"a", DOT, "c", "s", "v">>, dir |-> FALSE, date |-> 2],
    [path |-> <<"a", SLASH>>, dir |-> TRUE, date |-> 2],
    [path |-> <<"C", SLASH>>, dir |-> TRUE, date |-> 1],
    [path |-> <<"a", SLASH, "d", DOT, "p", "d", "f">>, dir |-> FALSE, date |-> 1],
    [path |-> <<"C", SLASH, "e", DOT, "c", "s", "v">>, dir |-> FALSE, date |-> 2]>>

Trees ==
  {parseZipFile([i \in 1..Len(ExplorerEntries) |-> ExplorerEntries[p[i]]],
                ModifiedBy) :
     p \in Permutations(1..Len(ExplorerEntries))}

\* What the user types in the search box of the explorer, and the options
\* of its sort select.
SearchQueries == {<<>>, <<DOT>>, <<"B">>, <<"C">>, <<"x">>}
SortKeys == {"name", "createdAt"}

\* filterAndSortTree(...)[0] of an empty array.
NoTree == [type |-> "undefined"]

\* filteredTree of the render.
filteredTree ==
  IF searchQuery # <<>>
  THEN LET r == filterAndSortTree(structure, searchQuery, sortBy)
       IN IF r = <<>> THEN NoTree ELSE r[1]
  ELSE structure

\* The counts in the header of the explorer.
totalFiles == getFileCount(structure)
filteredFiles == IF filteredTree # NoTree THEN getFileCount(filteredTree) ELSE 0

InitExplorer ==
  /\ ViewerIdle
  /\ entries = <<>>
  /\ walkIndex = 0
  /\ walkStatus = "none"
  /\ rootFolder = NoStructure
  /\ folderMap = <<>>
  /\ structure \in Trees
  /\ searchQuery = <<>>
  /\ sortBy = "name"
  /\ uploadStatus = "idle"
  /\ isUploading = FALSE
  /\ upload = NoUpload

explorerFrame ==
  UNCHANGED <<viewerVars, entries, walkIndex, walkStatus, rootFolder,
              folderMap, uploadStatus, isUploading, upload>>

\* The render of FileExplorer with the new state: the call of
\* filterAndSortTree on the tree prop when there is a query.
RenderExplorer(query, by) ==
  structure' = IF query # <<>>
               THEN filterAndSortTreeInput(structure, query, by)
               ELSE structure

\* onChange of the search box.
SetSearchQuery(query) ==
  /\ structure # NoStructure
  /\ query # searchQuery
  /\ searchQuery' = query
  /\ RenderExplorer(query, sortBy)
  /\ UNCHANGED sortBy
  /\ explorerFrame

\* onClick of the X in the search box and of "Clear search".
clearSearch ==
  /\ structure # NoStructure
  /\ searchQuery # <<>>
  /\ searchQuery' = <<>>
  /\ RenderExplorer(<<>>, sortBy)
  /\ UNCHANGED sortBy
  /\ explorerFrame

\* onChange of the sort select.
SetSortBy(by) ==
  /\ structure # NoStructure
  /\ by # sortBy
  /\ sortBy' = by
  /\ RenderExplorer(searchQuery, by)
  /\ UNCHANGED searchQuery
  /\ explorerFrame

NextExplorer ==
  \/ \E query \in SearchQueries : SetSearchQuery(query)
  \/ clearSearch
  \/ \E by \in SortKeys : SetSortBy(by)

SpecExplorer == InitExplorer /\ [][NextExplorer]_vars

\* The text contains the query when the case of letters is ignored.
ContainsIgnoringCase(text, query) ==
  \E i \in 1..(Len(text) - Len(query) + 1) :
    \A j \in 1..Len(query) :
      LowerChar(text[i + j - 1]) = LowerChar(query[j])

\* The references to the nodes of a type, and what is at them: the path of
\* names from the root to the node, the root's being <<>>.
LocsOfType(root, type) == {l \in Locs(root) : NodeAt(root, l).type = type}
PathsOfType(root, type) == {NamePath(root, l) : l \in LocsOfType(root, type)}

\* The files of the tree whose name contains the query.
MatchingFiles(root, query) ==
  {NamePath(root, l) :
     l \in {m \in LocsOfType(root, "file") :
              ContainsIgnoringCase(NodeAt(root, m).name, query)}}

\* The folder at path is the root or lies above the file at filePath.
Above(path, filePath) ==
  path = <<>> \/ startsWith(filePath, path \o <<SLASH>>)

\* What the search returns for the tree, the query and the key in use.
searchResult == filterAndSortTree(structure, searchQuery, sortBy)

\* C15: the search keeps a file exactly if its name contains the query,
\* letters compared without case, and a folder exactly if a kept file lies
\* below it, whatever the folder's name; no folder of the result is without
\* children; when no file matches, the result is no tree at all.
C15_SearchKeepsMatches ==
  LET kept == MatchingFiles(structure, searchQuery)
  IN IF kept = {}
     THEN searchResult = <<>>
     ELSE /\ Len(searchResult) = 1
          /\ PathsOfType(searchResult[1], "file") = kept
          /\ PathsOfType(searchResult[1], "folder") =
               {p \in PathsOfType(structure, "folder") :
                  \E f \in kept : Above(p, f)}
          /\ Cardinality(Locs(searchResult[1])) =
               Cardinality(PathsOfType(searchResult[1], "file"))
               + Cardinality(PathsOfType(searchResult[1], "folder"))
          /\ \A l \in LocsOfType(searchResult[1], "folder") :
               NodeAt(searchResult[1], l).children # <<>>

\* A query that is typed keeps some files and drops others, drops a folder
\* whose name it matches, and the tree holds a folder without children.
C15_Witness ==
  /\ searchQuery = <<"C">>
  /\ searchResult # <<>>
  /\ getFileCount(searchResult[1]) < getFileCount(structure)
  /\ <<"C">> \in PathsOfType(structure, "folder")
  /\ <<"C">> \notin PathsOfType(searchResult[1], "folder")
  /\ \E l \in LocsOfType(structure, "folder") :
       NodeAt(structure, l).children = <<>>

\* a is not after b in the order of the key.
KeyOrdered(a, b, by) ==
  IF by = "name" THEN localeCompare(a.name, b.name) <= 0
  ELSE a.createdAt <= b.createdAt

\* C16: in the tree the sort produces, at every folder the folder children
\* come before the file children, and within the folders and within the
\* files the children are in non-decreasing order of the key in use.
C16_FoldersFirstSorted ==
  searchResult # <<>> =>
    \A l \in LocsOfType(searchResult[1], "folder") :
      LET c == NodeAt(searchResult[1], l).children
      IN \A i, j \in 1..Len(c) :
           i < j =>
             /\ ~(c[i].type = "file" /\ c[j].type = "folder")
             /\ c[i].type = c[j].type => KeyOrdered(c[i], c[j], sortBy)

\* The result has two folders and three files at the root, and the root of
\* the input has them in another order.
C16_Witness ==
  /\ searchQuery = <<DOT>>
  /\ sortBy = "createdAt"
  /\ searchResult # <<>>
  /\ Len(OfType(searchResult[1].children, "folder")) = 2
  /\ Len(OfType(searchResult[1].children, "file")) = 3
  /\ structure.children[1].type = "file"
  /\ searchResult[1].children # structure.children

-----------------------------------------------------------------------------
(* UploadZip: isZipFile and handleZipUpload, in UploadZip.tsx and utils.ts *)

ZipSuffix == <<DOT, "z", "i", "p">>

\* isZipFile of utils.ts.
validMimeTypes ==
  {"application/zip", "application/x-zip-compressed", "application/x-zip",
   "multipart/x-zip"}

isZipFile(f) ==
  LET fileName == toLowerCase(f.name)
      hasZipExtension == endsWith(fileName, ZipSuffix)
      hasValidMimeType == f.type \in validMimeTypes \/ f.type = ""
  IN hasZipExtension /\ (hasValidMimeType \/ f.type = "")

\* isZipFile of UploadZip.tsx.
UploadZip_isZipFile(f) ==
  \/ f.type = "application/zip"
  \/ f.type = "application/x-zip-compressed"
  \/ f.type = "application/octet-stream"
  \/ endsWith(toLowerCase(f.name), ZipSuffix)

\* maxSize of handleZipUpload: 50 * 1024 * 1024.
maxSize == 52428800

\* The files the user chooses or drops.
UploadNames ==
  {<<"x", DOT, "z", "i", "p">>, <<"X", DOT, "Z", "I", "P">>,
   <<"x", DOT, "t", "x", "t">>}
UploadTypes ==
  {"", "application/zip", "application/x-zip", "application/octet-stream",
   "text/plain"}
UploadSizes == {0, 1024, maxSize + 1}
UploadFiles == [name : UploadNames, type : UploadTypes, size : UploadSizes]

\* What the server answers: response.ok, and the body: not JSON, success
\* false, success true without data, success true with a file content that
\* atob rejects, success true with contents that all convert.
Responses ==
  [ok : BOOLEAN, body : {"invalid", "failure", "malformed", "partial", "complete"}]

\* The structure of the answer.
ServerStructure == parseZipFile(ArchiveEntries, "Current User")

\* The two components.
Variants == {"UploadZip.tsx", "utils.ts"}

\* A call of handleZipUpload that has returned, and one that awaits.
Returned(variant, f, rejected, response, delivered) ==
  [pc |-> "done", variant |-> variant, file |-> f, rejected |-> rejected,
   response |-> response, delivered |-> delivered]
Awaiting(pc, variant, f, response) ==
  [pc |-> pc, variant |-> variant, file |-> f, rejected |-> "no",
   response |-> response, delivered |-> FALSE]

NoResponse == [ok |-> FALSE, body |-> "none"]
FetchRejected == [ok |-> FALSE, body |-> "rejected"]
ParseRejected == [ok |-> FALSE, body |-> "parseZipFile rejected"]

InitUpload ==
  /\ ViewerIdle
  /\ entries = <<>>
  /\ walkIndex = 0
  /\ walkStatus = "none"
  /\ rootFolder = NoStructure
  /\ folderMap = <<>>
  /\ structure = NoStructure
  /\ searchQuery = <<>>
  /\ sortBy = "name"
  /\ uploadStatus = "idle"
  /\ isUploading = FALSE
  /\ upload = NoUpload

uploadFrame ==
  UNCHANGED <<viewerVars, entries, walkIndex, walkStatus, rootFolder,
              folderMap, searchQuery, sortBy>>

\* UploadZip is rendered while App has no structure; the file input is
\* rendered and the drop zone takes pointer events while nothing uploads.
CanChoose ==
  /\ structure = NoStructure
  /\ ~isUploading
  /\ upload.pc \in {"none", "done"}

\* An early return of handleZipUpload.
Reject(variant, f, why) ==
  /\ uploadStatus' = "error"
  /\ upload' = Returned(variant, f, why, NoResponse, FALSE)
  /\ UNCHANGED <<isUploading, structure>>

\* The catch and the finally of handleZipUpload.
Fail(response) ==
  /\ uploadStatus' = "error"
  /\ isUploading' = FALSE
  /\ upload' = Returned(upload.variant, upload.file, "no", response, FALSE)
  /\ UNCHANGED structure

\* onStructureReady (setStructure of App), setUploadStatus("success") and
\* the finally of handleZipUpload.
Deliver ==
  /\ structure' = ServerStructure
  /\ uploadStatus' = "success"
  /\ isUploading' = FALSE
  /\ upload' = Returned(upload.variant, upload.file, "no", upload.response, TRUE)

\* handleZipUpload of UploadZip.tsx up to its first await.
handleZipUpload(f) ==
  /\ CanChoose
  /\ IF ~UploadZip_isZipFile(f) THEN Reject("UploadZip.tsx", f, "type")
     ELSE IF f.size > maxSize THEN Reject("UploadZip.tsx", f, "size")
     ELSE IF f.size = 0 THEN Reject("UploadZip.tsx", f, "empty")
     ELSE /\ isUploading' = TRUE
          /\ uploadStatus' = "idle"
          /\ upload' = Awaiting("fetch", "UploadZip.tsx", f, NoResponse)
          /\ UNCHANGED structure
  /\ uploadFrame

\* handleZipUpload of utils.ts up to its first await.
utils_handleZipUpload(f) ==
  /\ CanChoose
  /\ IF ~isZipFile(f) THEN Reject("utils.ts", f, "type")
     ELSE /\ isUploading' = TRUE
          /\ uploadStatus' = "idle"
          /\ upload' = Awaiting("parseZipFile", "utils.ts", f, NoResponse)
          /\ UNCHANGED structure
  /\ uploadFrame

\* await parseZipFile(file, "You") of utils.ts rejects.
ParseZipRejects ==
  /\ upload.pc = "parseZipFile"
  /\ Fail(ParseRejected)
  /\ uploadFrame

\* await parseZipFile(file, "You") resolves and the request is sent.
ParseZipResolves ==
  /\ upload.pc = "parseZipFile"
  /\ upload' = [upload EXCEPT !.pc = "fetch"]
  /\ UNCHANGED <<uploadStatus, isUploading, structure>>
  /\ uploadFrame

\* await fetch(...) rejects.
FetchRejects ==
  /\ upload.pc = "fetch"
  /\ Fail(FetchRejected)
  /\ uploadFrame

\* The bodies whose meaning the component reads.
Bodies(variant) ==
  IF variant = "UploadZip.tsx"
  THEN {"invalid", "failure", "malformed", "partial", "complete"}
  ELSE {"invalid", "complete"}

\* await fetch(...) resolves; utils.ts throws at once on !response.ok.
FetchResolves(response) ==
  /\ upload.pc = "fetch"
  /\ response.body \in Bodies(upload.variant)
  /\ IF upload.variant = "utils.ts" /\ ~response.ok
     THEN Fail(response)
     ELSE /\ upload' = [upload EXCEPT !.pc = "json", !.response = response]
          /\ UNCHANGED <<uploadStatus, isUploading, structure>>
  /\ uploadFrame

\* The call reaches onStructureReady whatever response.ok is.
ReachesStructureReadyIgnoringOk(variant, response) ==
  IF variant = "UploadZip.tsx"
  THEN response.body \in {"partial", "complete"}
  ELSE response.body # "invalid"

\* The call reaches onStructureReady: in UploadZip.tsx the body parses,
\* response.ok and result.success hold and result.data has the structure,
\* a content that does not convert being logged and left out; in utils.ts
\* the body parses.
ReachesStructureReady(variant, response) ==
  IF variant = "UploadZip.tsx"
  THEN response.ok /\ response.body \in {"partial", "complete"}
  ELSE response.body # "invalid"

\* await response.json() settles, and the rest of handleZipUpload.
JsonSettles ==
  /\ upload.pc = "json"
  /\ IF ReachesStructureReady(upload.variant, upload.response)
     THEN Deliver
     ELSE Fail(upload.response)
  /\ uploadFrame

NextUpload ==
  \/ \E f \in UploadFiles : handleZipUpload(f)
  \/ \E f \in UploadFiles : utils_handleZipUpload(f)
  \/ ParseZipRejects
  \/ ParseZipResolves
  \/ FetchRejects
  \/ \E response \in Responses : FetchResolves(response)
  \/ JsonSettles

SpecUpload == InitUpload /\ [][NextUpload]_vars

\* The media types either component lets through.
AllowList == validMimeTypes \cup {"application/octet-stream"}

\* C18: a call of handleZipUpload with a file whose name does not end in
\* .zip, letters compared without case, or whose type is neither empty nor
\* in the allow-list, returns at once with the error status and starts no
\* walk and no request; a .zip name with an empty type is not rejected for
\* its type.
C18_BoundaryRejects ==
  [][(upload.pc \in {"none", "done"} /\ upload' # upload) =>
       LET f == upload'.file
           zipName == endsWith(toLowerCase(f.name), ZipSuffix)
       IN /\ (~zipName \/ (f.type # "" /\ f.type \notin AllowList))
             => /\ uploadStatus' = "error"
                /\ upload'.pc = "done"
                /\ upload'.rejected # "no"
                /\ ~isUploading'
          /\ (zipName /\ f.type = "") => upload'.rejected # "type"]_vars

\* A step of the call has failed: a promise rejected, the answer is no
\* JSON, not ok, not a success or without data, or a content did not
\* convert.
StepFailed(u) ==
  \/ u.response \in {FetchRejected, ParseRejected}
  \/ u.response.body \in {"invalid", "failure", "malformed", "partial"}
  \/ ~u.response.ok

\* A failure the call does not catch where it occurs.
FatalFailure(u) ==
  \/ u.response \in {FetchRejected, ParseRejected}
  \/ u.response.body \in {"invalid", "failure", "malformed"}
  \/ ~u.response.ok

\* The call got past the checks of the file and has returned.
Ended == upload.pc = "done" /\ upload.rejected = "no"

-----------------------------------------------------------------------------
(* filtered.sort: the order an engine gives under the sort comparator      *)

\* Array.prototype.sort by merging, bottom-up: the right element goes first
\* only when the comparator puts it strictly before the left one.
RECURSIVE Merge(_, _, _)
Merge(left, right, sort) ==
  IF right = <<>> THEN left
  ELSE IF left = <<>> THEN right
  ELSE IF SortCompare(Head(right), Head(left), sort) < 0
       THEN <<Head(right)>> \o Merge(left, Tail(right), sort)
       ELSE <<Head(left)>> \o Merge(Tail(left), right, sort)

RECURSIVE MergePass(_, _, _)
MergePass(rows, width, sort) ==
  IF Len(rows) <= width THEN rows
  ELSE Merge(SubSeq(rows, 1, width),
             SubSeq(rows, width + 1, Min(2 * width, Len(rows))), sort)
       \o MergePass(SubSeq(rows, 2 * width + 1, Len(rows)), width, sort)

RECURSIVE MergeSort(_, _, _)
MergeSort(rows, width, sort) ==
  IF width >= Len(rows) THEN rows
  ELSE MergeSort(MergePass(rows, width, sort), 2 * width, sort)

\* The stable sorts an engine runs on a short array: by insertion or by
\* merging.  They agree whenever the comparator is a consistent one; when it
\* is not, the order is the engine's.
Engines == {"insertion", "merge"}

\* filtered.sort(comparator) on the given engine.
ArraySort(rows, sort, engine) ==
  IF engine = "merge" THEN MergeSort(rows, 1, sort)
  ELSE SortRows(rows, sort, <<>>)

\* The effect on [data, globalSearchQuery, columnFilters, sortConfig] on the
\* given engine.
FilterEffectOn(engine, rows, query, filters, sort) ==
  LET searched == IF query # <<>> THEN FilterBySearch(rows, query) ELSE rows
      filtered == ApplyColumnFilters(searched, filters)
  IN IF sort # NoSort THEN ArraySort(filtered, sort, engine) ELSE filtered

\* onClick of a column header, the effect run on the given engine.
handleSortOn(engine, column) ==
  /\ Rendered
  /\ \E i \in 1..Len(visibleColumnsList) : visibleColumnsList[i] = column
  /\ sortConfig' = NextSort(sortConfig, column)
  /\ filteredData' = FilterEffectOn(engine, data, globalSearchQuery,
                                    columnFilters, sortConfig')
  /\ currentPage' = 1
  /\ UNCHANGED <<file, pending, data, columns, globalSearchQuery, columnFilters,
                 selectedFilterColumn, visibleColumns, itemsPerPage, loading,
                 error>>
  /\ UNCHANGED archiveVars

\* Files of four rows in every line order; the second column mixes numbers
\* with a text that starts with a digit.
SortHeader == <<"n", COMMA, "b">>
SortLines ==
  <<<<"a", COMMA, "1", "0">>, <<"b", COMMA, "1", "a">>,
    <<"x", COMMA, "9">>, <<"y", COMMA, "2", "0">>>>
SortTexts ==
  {join(<<SortHeader>> \o [i \in 1..Len(SortLines) |-> SortLines[p[i]]], <<NL>>) :
     p \in Permutations(1..Len(SortLines))}

InitSort ==
  /\ file \in SortTexts
  /\ pending = <<>>
  /\ data = parseCsvFile(file).data
  /\ columns = parseCsvFile(file).columns
  /\ filteredData = data
  /\ globalSearchQuery = <<>>
  /\ columnFilters = <<>>
  /\ selectedFilterColumn = <<>>
  /\ visibleColumns = AllVisible(columns)
  /\ sortConfig = NoSort
  /\ currentPage = 1
  /\ itemsPerPage = 5
  /\ loading = FALSE
  /\ error = NoError
  /\ ArchiveIdle

NextSorting ==
  \E engine \in Engines : \E c \in ColumnSet(columns) : handleSortOn(engine, c)

SpecSort == InitSort /\ [][NextSorting]_vars

\* C21: sorting is idempotent for every column and direction: on each
\* engine, sorting the loaded rows by the key and direction on screen and
\* sorting the result once more gives the same sequence, also for a column
\* that mixes numbers and text.
C21_SortIdempotent ==
  sortConfig # NoSort =>
    \A engine \in Engines :
      LET once == ArraySort(data, sortConfig, engine)
      IN ArraySort(once, sortConfig, engine) = once

-----------------------------------------------------------------------------
(* Toggling the sort of a column twice                                     *)

\* Search, column filters, column visibility and the clicks on column
\* headers.
NextToggle ==
  \/ \E term \in SearchTerms : SetGlobalSearch(term)
  \/ \E c \in ColumnSet(columns) \cup {<<>>} : SelectFilterColumn(c)
  \/ \E fi \in FilterInputs : AddFilterClick(fi.value, fi.operator)
  \/ \E i \in 1..Len(columnFilters) : RemoveFilterClick(i)
  \/ \E c \in ColumnSet(columns) : toggleColumnVisibility(c)
  \/ \E c \in ColumnSet(columns) : handleSort(c)

SpecToggle == InitQuery /\ [][NextToggle]_vars

\* The rows that the comparator holds equal to x, in their order in rows.
RECURSIVE EqualKeyRows(_, _, _)
EqualKeyRows(rows, x, sort) ==
  IF rows = <<>> THEN <<>>
  ELSE IF SortCompare(Head(rows), x, sort) = 0
       THEN <<Head(rows)>> \o EqualKeyRows(Tail(rows), x, sort)
       ELSE EqualKeyRows(Tail(rows), x, sort)

\* C22: from an ascending sort on key k, setSort(k) twice gives the
\* direction ascending again (through descending) and the row sequence that
\* was displayed before the two clicks, in which rows of equal key are in
\* the order of their input lines.
C22_DoubleToggleRestores ==
  (Rendered /\ sortConfig # NoSort /\ sortConfig.direction = "asc") =>
    LET k == sortConfig.key
        once == NextSort(sortConfig, k)
        twice == NextSort(once, k)
        unsorted == FilterEffect(data, globalSearchQuery, columnFilters, NoSort)
    IN /\ once = [key |-> k, direction |-> "desc"]
       /\ twice = sortConfig
       /\ FilterEffect(data, globalSearchQuery, columnFilters, twice) = filteredData
       /\ \A i \in 1..Len(filteredData) :
            EqualKeyRows(filteredData, filteredData[i], sortConfig)
              = EqualKeyRows(unsorted, filteredData[i], sortConfig)

\* An ascending sort that moved rows and holds two different rows of equal
\* key.
C22_Witness ==
  /\ Rendered
  /\ sortConfig # NoSort
  /\ sortConfig.direction = "asc"
  /\ filteredData # FilterEffect(data, globalSearchQuery, columnFilters, NoSort)
  /\ \E i, j \in 1..Len(filteredData) :
       /\ i < j
       /\ filteredData[i] # filteredData[j]
       /\ SortCompare(filteredData[i], filteredData[j], sortConfig) = 0

-----------------------------------------------------------------------------
(* Numbers and text in the parsed rows                                     *)

\* The file  Name,Age / Alice,30 / "Bob, Jr",25.
ExampleText ==
  <<"N", "a", "m", "e", COMMA, "A", "g", "e", NL,
    "A", "l", "i", "c", "e", COMMA, "3", "0", NL,
    QUOTE, "B", "o", "b", COMMA, SPACE, "J", "r", QUOTE, COMMA, "2", "5">>

Name == <<"N", "a", "m", "e">>
Age == <<"A", "g", "e">>

\* How the Age field of a line may be written: digits, quoted digits, digits
\* between spaces, nothing, text, digits followed by text, a quoted space,
\* digits between escaped quotes, digits with a leading zero.
AgeForms ==
  {<<"3", "0">>, <<QUOTE, "2", "5", QUOTE>>, <<SPACE, "7", SPACE>>, <<>>,
   <<"a">>, <<"1", "a">>, <<QUOTE, SPACE, QUOTE>>,
   <<QUOTE, QUOTE, QUOTE, "5", QUOTE, QUOTE, QUOTE>>, <<"0", "7">>}

ExampleTexts ==
  {ExampleText}
    \cup {Name \o <<COMMA>> \o Age \o <<NL, "x", COMMA>> \o form
            \o <<NL, "A", "l", "i", "c", "e", COMMA, "3", "0">> :
          form \in AgeForms}

\* The filters tried on the rows: Age against 26.
ExampleFilterInputs ==
  {[value |-> <<"2", "6">>, operator |-> "greater"],
   [value |-> <<"2", "6">>, operator |-> "less"]}

InitExample ==
  /\ file \in ExampleTexts
  /\ pending = <<>>
  /\ data = parseCsvFile(file).data
  /\ columns = parseCsvFile(file).columns
  /\ filteredData = data
  /\ globalSearchQuery = <<>>
  /\ columnFilters = <<>>
  /\ selectedFilterColumn = <<>>
  /\ visibleColumns = AllVisible(columns)
  /\ sortConfig = NoSort
  /\ currentPage = 1
  /\ itemsPerPage = 5
  /\ loading = FALSE
  /\ error = NoError
  /\ ArchiveIdle

NextExample ==
  \/ \E c \in ColumnSet(columns) \cup {<<>>} : SelectFilterColumn(c)
  \/ \E fi \in ExampleFilterInputs : AddFilterClick(fi.value, fi.operator)
  \/ \E i \in 1..Len(columnFilters) : RemoveFilterClick(i)

SpecExample == InitExample /\ [][NextExample]_vars

\* The field of the line at the position of a column, with the quotes
\* around it removed and trimmed.
FieldText(line, j) ==
  LET fields == parseCsvLine(line)
  IN trim(StripQuotes(IF j <= Len(fields) THEN fields[j] ELSE <<>>))

\* The rows of the example: Alice with the number 30, "Bob, Jr" with 25.
AliceRow ==
  <<[k |-> Name, v |-> [num |-> FALSE, s |-> <<"A", "l", "i", "c", "e">>]],
    [k |-> Age, v |-> [num |-> TRUE, s |-> <<"3", "0">>]]>>
BobRow ==
  <<[k |-> Name, v |-> [num |-> FALSE, s |-> <<"B", "o", "b", COMMA, SPACE, "J", "r">>]],
    [k |-> Age, v |-> [num |-> TRUE, s |-> <<"2", "5">>]]>>

AgeGreater26 ==
  <<[column |-> Age, value |-> <<"2", "6">>, operator |-> "greater"]>>

\* C23: a field is stored as a number exactly when, with its quotes removed
\* and trimmed, it is non-empty and numeric, and as that text otherwise; the
\* example file gives the columns Name and Age and the rows of Alice and
\* "Bob, Jr" with numeric ages, and Age greater "26" retains the row of
\* Alice alone.
C23_NumbersExactlyWhenNumeric ==
  /\ columns = <<Name, Age>>
  /\ Len(data) = Len(split(file, NL)) - 1
  /\ \A i \in 1..Len(data) : \A j \in 1..Len(columns) :
       LET text == FieldText(split(file, NL)[i + 1], j)
           cell == Get(data[i], columns[j])
       IN /\ cell.num <=> (text # <<>> /\ IsDecimal(text))
          /\ cell.num => DecVal(cell.s) = DecVal(text)
          /\ ~cell.num => cell.s = text
  /\ file = ExampleText =>
       /\ data = <<AliceRow, BobRow>>
       /\ columnFilters = AgeGreater26 => filteredData = <<AliceRow>>

\* The example file with the filter Age greater "26" applied.
C23_Witness ==
  /\ file = ExampleText
  /\ columnFilters = AgeGreater26
  /\ Len(filteredData) = 1

-----------------------------------------------------------------------------
(* parseCsvLine: the fields of a line                                      *)

\* Files of one line: every line of up to MaxLineLen characters among the
\* quote, the comma, the space and a letter.
MaxLineLen == 4
LineChars == {QUOTE, COMMA, SPACE, "a"}
TokenLines == UNION {[1..n -> LineChars] : n \in 0..MaxLineLen}

InitTokens == InitWith(TokenLines)

NextTokens == \E i \in 1..MaxPending : ParseSettled(i)

SpecTokens == InitTokens /\ [][NextTokens]_vars

\* What each character of a line is to the tokenizer, from position i on in
\* the given quoting state: a quote that toggles the state, the first quote
\* of a pair inside quotes (emitted), the second one (consumed), a comma
\* outside quotes (a field boundary), or a character kept in the field.
RECURSIVE Marks(_, _, _)
Marks(line, i, inQuotes) ==
  IF i > Len(line) THEN <<>>
  ELSE IF line[i] = QUOTE /\ inQuotes /\ i < Len(line) /\ line[i + 1] = QUOTE
       THEN <<"emitted", "consumed">> \o Marks(line, i + 2, inQuotes)
  ELSE IF line[i] = QUOTE THEN <<"toggle">> \o Marks(line, i + 1, ~inQuotes)
  ELSE IF line[i] = COMMA /\ ~inQuotes
       THEN <<"boundary">> \o Marks(line, i + 1, inQuotes)
  ELSE <<"kept">> \o Marks(line, i + 1, inQuotes)

\* The number of field boundaries among the first n characters.
Boundaries(marks, n) == Cardinality({p \in 1..n : marks[p] = "boundary"})

\* The characters of the k-th field, from position p on.
RECURSIVE FieldChars(_, _, _, _)
FieldChars(line, marks, k, p) ==
  IF p > Len(line) THEN <<>>
  ELSE (IF marks[p] \in {"kept", "emitted"} /\ Boundaries(marks, p) = k - 1
        THEN <<line[p]>> ELSE <<>>)
       \o FieldChars(line, marks, k, p + 1)

\* C24: the tokenizer returns one field more than the line has commas
\* outside quotes, in order; a quote toggles the quoting state, but a pair
\* of quotes inside quotes gives one quote of the field; a comma inside
\* quotes stays in its field; each field is trimmed; a line that ends inside
\* quotes still gives its last field, and the load ends without a parse
\* error.
C24_TokenizerFields ==
  LET marks == Marks(file, 1, FALSE)
      fields == parseCsvLine(file)
  IN /\ Len(fields) = 1 + Boundaries(marks, Len(file))
     /\ \A k \in 1..Len(fields) :
          fields[k] = trim(FieldChars(file, marks, k, 1))
     /\ Parsed =>
          columns = [k \in 1..Len(fields) |-> trim(StripQuotes(fields[k]))]
     /\ (pending = <<>> /\ trim(file) # <<>>) => Parsed

\* The parsed line  """,  : a quote opens, a pair of quotes gives a quote, the
\* comma is inside quotes, and the line ends inside quotes.
C24_Witness ==
  /\ Parsed
  /\ file = <<QUOTE, QUOTE, QUOTE, COMMA>>
  /\ columns = <<<<QUOTE, COMMA>>>>

-----------------------------------------------------------------------------
(* parseCsvFile: which lines give a row                                    *)

\* Files of a header line of two columns, of distinct names or of the same
\* name, and two more lines: blank, or two fields each empty, quoted empty,
\* a space, a letter or a zero.
RowHeaders == {<<"a", COMMA, "b">>, <<"a", COMMA, "a">>}
RowFieldForms == {<<>>, <<QUOTE, QUOTE>>, <<SPACE>>, <<"x">>, <<"0">>}
RowLines ==
  {<<SPACE>>} \cup {f \o <<COMMA>> \o g : f \in RowFieldForms, g \in RowFieldForms}
RowTexts ==
  {h \o <<NL>> \o l1 \o <<NL>> \o l2 : h \in RowHeaders, l1 \in RowLines, l2 \in RowLines}

InitRows == InitWith(RowTexts)

NextRows == \E i \in 1..MaxPending : ParseSettled(i)

SpecRows == InitRows /\ [][NextRows]_vars

\* The line has a non-empty field at the position of one of the columns.
HasFieldInColumns(line, cols) ==
  \E j \in 1..Len(cols) : FieldText(line, j) # <<>>

\* The rows of the non-blank lines that have a non-empty field within the
\* columns, in the order of the lines.
RECURSIVE RowsOfLines(_, _)
RowsOfLines(cols, ls) ==
  IF ls = <<>> THEN <<>>
  ELSE (IF trim(Head(ls)) # <<>> /\ HasFieldInColumns(Head(ls), cols)
        THEN <<ParseRow(cols, Head(ls))>> ELSE <<>>)
       \o RowsOfLines(cols, Tail(ls))

\* C25: the rows of the parser are exactly the rows of the non-blank lines
\* after the header that have at least one non-empty field within the
\* header's columns, in the order of the lines, none twice; a line whose
\* fields at the header's positions are all empty gives no row.
C25_RowsAreNonEmptyLines ==
  Parsed => data = RowsOfLines(columns, Tail(split(file, NL)))

-----------------------------------------------------------------------------
(* The name of the root folder of an uploaded archive                      *)

\* The files offered to handleZipUpload of utils.ts: the extension in three
\* letter cases and a text file, with three media types.
UploadedNames ==
  {<<"r", DOT, "z", "i", "p">>, <<"R", DOT, "Z", "I", "P">>,
   <<"r", DOT, "Z", "i", "p">>, <<"r", DOT, "t", "x", "t">>}
UploadedFiles ==
  [name : UploadedNames, type : {"", "application/zip", "text/plain"}, size : {1024}]

\* The first three entries of the archive, in every order.
UploadedEntries ==
  {[i \in 1..3 |-> ArchiveEntries[p[i]]] : p \in Permutations(1..3)}

\* parseZipFile(file, "You") up to its loop: the archive is decoded, the root
\* folder is made and the empty path is mapped to it.
parseZipFileStarts(es) ==
  /\ upload.pc = "parseZipFile"
  /\ walkStatus = "none"
  /\ entries' = es
  /\ walkIndex' = 0
  /\ walkStatus' = "running"
  /\ rootFolder' = FolderNode(StripZip(upload.file.name), LastModified, ModifiedBy)
  /\ folderMap' = NewFolderMap
  /\ UNCHANGED <<viewerVars, structure, searchQuery, sortBy, uploadStatus,
                 isUploading, upload>>

NextArchive ==
  \/ \E f \in UploadedFiles : utils_handleZipUpload(f)
  \/ \E es \in UploadedEntries : parseZipFileStarts(es)
  \/ WalkStep
  \/ EntryBlobFails

SpecArchive == InitUpload /\ [][NextArchive]_vars

\* The name without its last four characters, the dot and the extension.
WithoutExtension(name) == SubSeq(name, 1, Len(name) - Len(ZipSuffix))

\* C26: for every archive name the upload boundary accepts, the .zip
\* extension in any letter case, the root folder of the walk is named with
\* the archive's name minus that extension, and before any entry is
\* processed the empty path is mapped to the root and no other path is
\* mapped.
C26_RootNamedWithoutExtension ==
  walkStatus # "none" =>
    /\ isZipFile(upload.file)
    /\ rootFolder.name = WithoutExtension(upload.file.name)
    /\ folderMap[<<>>] = <<>>
    /\ walkIndex = 0 => DOMAIN folderMap = {<<>>} /\ rootFolder.children = <<>>

-----------------------------------------------------------------------------
(* Two parses in flight                                                    *)

\* The file prop changed from A to B while the parse of A was pending: the
\* effect on [file] has run for both and neither promise has settled.
RaceFiles == Files \cup {ExampleText}

InitRace ==
  /\ file \in RaceFiles
  /\ \E a \in RaceFiles \ {file} : pending = <<a, file>>
  /\ data = <<>>
  /\ columns = <<>>
  /\ filteredData = <<>>
  /\ globalSearchQuery = <<>>
  /\ columnFilters = <<>>
  /\ selectedFilterColumn = <<>>
  /\ visibleColumns = AllVisible(<<>>)
  /\ sortConfig = NoSort
  /\ currentPage = 1
  /\ itemsPerPage = 5
  /\ loading = TRUE
  /\ error = NoError
  /\ ArchiveIdle

\* The two promises settle in either order, each by .then or .catch.
NextRace ==
  \/ \E i \in 1..Len(pending) : ParseSettled(i)
  \/ \E i \in 1..Len(pending) : ReadFailed(i)
  \/ \E term \in LoadSearchTerms : SetGlobalSearch(term)

SpecRace == InitRace /\ [][NextRace]_vars

\* C27: when the file changed from A to B during the parse of A, what is
\* displayed in the end is B's: a completion of A's parse that comes after
\* the completion of B's changes neither the rows and columns, nor the
\* error, nor the loading state.
C27_LatestFileWins ==
  [][\A i \in 1..Len(pending) :
       (/\ pending' = RemoveAt(pending, i)
        /\ pending[i] # file
        /\ \A j \in 1..Len(pending) : pending[j] # file)
       => UNCHANGED <<data, columns, filteredData, error, loading>>]_vars

-----------------------------------------------------------------------------
(* The active filter list                                                  *)

\* The filter controls: the column select, the Add Filter button, the Enter
\* key in the value box, the X of an active filter and Clear All.
NextFilters ==
  \/ \E c \in ColumnSet(columns) \cup {<<>>} : SelectFilterColumn(c)
  \/ \E fi \in FilterInputs : AddFilterClick(fi.value, fi.operator)
  \/ \E fi \in FilterInputs : FilterValueEnter(fi.value, fi.operator)
  \/ \E i \in 1..Len(columnFilters) : RemoveFilterClick(i)
  \/ clearAllFilters

SpecFilters == InitQuery /\ [][NextFilters]_vars

\* The column filters the effect applies to the rows.
AppliedFilters == {i \in 1..Len(columnFilters) : columnFilters[i].value # <<>>}

\* C28: after any sequence of Add Filter clicks, Enter submissions, removals
\* and Clear All every active filter has a non-empty value, and the active
\* filter count on display, the search aside, is the number of column
\* predicates applied to the rows.
C28_ActiveFiltersHaveValues ==
  /\ \A i \in 1..Len(columnFilters) : columnFilters[i].value # <<>>
  /\ getActiveFiltersCount - (IF globalSearchQuery # <<>> THEN 1 ELSE 0)
       = Cardinality(AppliedFilters)

-----------------------------------------------------------------------------
(* The order of the tree FileExplorer renders                              *)

\* C29: for every search query, the empty one included, and every sort key,
\* the tree handed to the renderer has, at every folder, the folders before
\* the files and each group in the order of the selected key; so a change of
\* the key with an empty search box shows in the order on display.
C29_RenderedTreeSorted ==
  (structure # NoStructure /\ filteredTree # NoTree) =>
    \A l \in LocsOfType(filteredTree, "folder") :
      LET c == NodeAt(filteredTree, l).children
      IN \A i, j \in 1..Len(c) :
           i < j =>
             /\ ~(c[i].type = "file" /\ c[j].type = "folder")
             /\ c[i].type = c[j].type => KeyOrdered(c[i], c[j], sortBy)

-----------------------------------------------------------------------------
(* The counts in the header of the application                             *)

\* getFileStats of App.tsx: a folder counts itself and then takes one off,
\* at every level.
RECURSIVE getFileStats(_)
RECURSIVE ForEachChildStats(_, _)
ForEachChildStats(children, acc) ==
  IF children = <<>> THEN acc
  ELSE LET stats == getFileStats(Head(children))
       IN ForEachChildStats(Tail(children),
                            [files |-> acc.files + stats.files,
                             folders |-> acc.folders + stats.folders])

getFileStats(node) ==
  IF node.type = "file" THEN [files |-> 1, folders |-> 0]
  ELSE LET total == ForEachChildStats(node.children, [files |-> 0, folders |-> 1])
       IN [files |-> total.files, folders |-> total.folders - 1]

\* getFileStats of services/api.ts: a folder counts itself.
RECURSIVE api_getFileStats(_)
RECURSIVE ReduceChildStats(_, _)
ReduceChildStats(children, acc) ==
  IF children = <<>> THEN acc
  ELSE LET stats == api_getFileStats(Head(children))
       IN ReduceChildStats(Tail(children),
                           [files |-> acc.files + stats.files,
                            folders |-> acc.folders + stats.folders])

api_getFileStats(node) ==
  IF node.type = "file" THEN [files |-> 1, folders |-> 0]
  ELSE ReduceChildStats(node.children, [files |-> 0, folders |-> 1])

\* stats of the render, and the numbers in the header: App.tsx shows
\* stats.folders, services/api.ts shows stats.folders - 1.
NoStats == [files |-> 0, folders |-> 0]
stats == IF structure # NoStructure THEN getFileStats(structure) ELSE NoStats
api_stats == IF structure # NoStructure THEN api_getFileStats(structure) ELSE NoStats

HeaderCounts == [files |-> stats.files, folders |-> stats.folders]
api_HeaderCounts == [files |-> api_stats.files, folders |-> api_stats.folders - 1]

\* C30: for every tree the header shows as folder count the number of
\* folders of the tree at any depth, the root left out, and as file count
\* the number of its files.
C30_HeaderCountsNodes ==
  structure # NoStructure =>
    LET counts == [files |-> Cardinality(LocsOfType(structure, "file")),
                   folders |-> Cardinality(LocsOfType(structure, "folder")) - 1]
    IN HeaderCounts = counts /\ api_HeaderCounts = counts

====
